---- MODULE Spec2Model ----
(***************************************************************************)
(* Model of DennisVis/mt: the block lexer (internal/message lexer), the    *)
(* block parser (internal/message parser), the header decoders and the     *)
(* ParseMTx / ParseMT940 drivers.  Texts are sequences of one-character    *)
(* strings; goroutines are processes with a program counter; unbuffered    *)
(* channels are rendezvous between a sender and a receiver.                *)
(***************************************************************************)
EXTENDS Integers, Sequences, FiniteSets, TLC

VARIABLES
    wire,       \* ghost: the input as a list of blocks, before rendering
    tail,       \* ghost: the unterminated text that follows the blocks
    sep,        \* ghost: the text between two blocks
    input,      \* the runes the reader holds
    failAt,     \* the read (1-based) at which the reader fails, 0 = never
    StopOnError,\* message.Config.StopOnError
    Lax,        \* config.Lax
    SkipValidation, \* config.SkipValidation
    mode,       \* the entry point called: "Parse", "ParseMTx", "ParseMT940"
    cancelled,  \* ctx.Done() is closed
    closed,     \* the set of closed channels
    lx,         \* the lexer goroutine
    pr,         \* the parser goroutine
    fw,         \* ParseMTx: the goroutine that forwards messages
    ef,         \* ParseMTx: the goroutine that forwards errors
    cl,         \* ParseMTx: the goroutine that closes the channels
    cv,         \* ParseMT940: the goroutine that converts MTx to MT940
    outMsgs,    \* what the consumer received from the message channel
    outErrs,    \* what the consumer received from the error channel
    panicked,   \* a goroutine panicked: the process is gone
    pattern,    \* pattern package: the text given to pattern.Parse
    compiled,   \* pattern package: what pattern.Parse returned
    result,     \* pattern package: what the last validation returned
    member      \* validator: the schema item and the value of the member validated

vars == <<wire, tail, sep, input, failAt, StopOnError, Lax, SkipValidation, mode,
          cancelled, closed, lx, pr, fw, ef, cl, cv, outMsgs, outErrs, panicked,
          pattern, compiled, result, member>>

\* What the goroutines of a parse never change: the input and the
\* configuration, and the state of the pattern package (the patterns of the
\* tags are compiled before the first parse).
conf == <<wire, tail, sep, input, failAt, StopOnError, Lax, SkipValidation, mode,
          pattern, compiled, result, member>>

(***************************************************************************)
(* Bounds.                                                                 *)
(***************************************************************************)
MaxBlocks == 2
MaxSpins == 2
MaxLiveBlocks == 2

(***************************************************************************)
(* Text helpers.                                                           *)
(***************************************************************************)
Digits == {"0", "1", "2", "3", "4", "5", "6", "7", "8", "9"}

DigitVal(c) ==
    CASE c = "0" -> 0 [] c = "1" -> 1 [] c = "2" -> 2 [] c = "3" -> 3
      [] c = "4" -> 4 [] c = "5" -> 5 [] c = "6" -> 6 [] c = "7" -> 7
      [] c = "8" -> 8 [] c = "9" -> 9 [] OTHER -> 0

\* s[i:j] of Go: the runes i .. j-1, 0-based.
Slice(s, i, j) == SubSeq(s, i + 1, j)

\* F applied to x, x being evaluated first.
Once(F(_), x) == CHOOSE y \in {F(v) : v \in {x}} : TRUE

HasSuffix(s, suffix) ==
    /\ Len(s) >= Len(suffix)
    /\ SubSeq(s, Len(s) - Len(suffix) + 1, Len(s)) = suffix

HasPrefix(s, prefix) ==
    /\ Len(s) >= Len(prefix)
    /\ SubSeq(s, 1, Len(prefix)) = prefix

IsSpace(c) == c \in {" ", "\n", "\t", "\r"}

RECURSIVE TrimLeft(_)
TrimLeft(s) ==
    IF s # <<>> /\ IsSpace(Head(s)) THEN TrimLeft(Tail(s)) ELSE s

RECURSIVE TrimRight(_)
TrimRight(s) ==
    IF s # <<>> /\ IsSpace(s[Len(s)]) THEN TrimRight(SubSeq(s, 1, Len(s) - 1)) ELSE s

TrimSpace(s) == TrimRight(TrimLeft(s))

RECURSIVE Concat(_)
Concat(ss) == IF ss = <<>> THEN <<>> ELSE Head(ss) \o Concat(Tail(ss))

RECURSIVE CountNL(_)
CountNL(s) ==
    IF s = <<>> THEN 0 ELSE (IF Head(s) = "\n" THEN 1 ELSE 0) + CountNL(Tail(s))

(***************************************************************************)
(* The lexer: item types, delimiters and the state functions.              *)
(***************************************************************************)
itemError == "itemError"
itemEOF == "itemEOF"
itemIgnore == "itemIgnore"
itemBlockLeftMeta == "itemBlockLeftMeta"
itemBlockLabelMeta == "itemBlockLabelMeta"
itemBlockLabel == "itemBlockLabel"
itemBlockContent == "itemBlockContent"
itemBlockRightMeta == "itemBlockRightMeta"
itemSubBlockLeftMeta == "itemSubBlockLeftMeta"
itemSubBlockLabelMeta == "itemSubBlockLabelMeta"
itemSubBlockLabel == "itemSubBlockLabel"
itemSubBlockContent == "itemSubBlockContent"
itemSubBlockRightMeta == "itemSubBlockRightMeta"
itemTagLeftMeta == "itemTagLeftMeta"
itemTagContent == "itemTagContent"
itemTagRightMeta == "itemTagRightMeta"
itemFieldContent == "itemFieldContent"

blockLeftMeta == <<"{">>
blockLabelMeta == <<":">>
blockRightMeta == <<"}">>
subBlockLeftMeta == <<"{">>
subBlockLabelMeta == <<":">>
subBlockRightMeta == <<"}">>
tagLeftMeta == <<":">>
tagRightMeta == <<":">>
fieldsRightMeta == <<"-", "}">>

ReadErrorText == <<"r", "e", "a", "d">>

\* A state function is either lexText(typ, next) or lexMeta(typ, _, next).
lexToBlock ==
    [kind |-> "text", typ |-> itemIgnore,
     next |-> [s \in {blockLeftMeta} |-> "lexBlockLeftMeta"]]

lexBlockLeftMeta ==
    [kind |-> "meta", typ |-> itemBlockLeftMeta, next |-> "lexBlockLabel"]

lexBlockLabel ==
    [kind |-> "text", typ |-> itemBlockLabel,
     next |-> [s \in {blockLabelMeta} |-> "lexBlockLabelMeta"]]

lexBlockLabelMeta ==
    [kind |-> "meta", typ |-> itemBlockLabelMeta, next |-> "lexBlockContent"]

lexBlockContent ==
    [kind |-> "text", typ |-> itemBlockContent,
     next |-> [s \in {blockRightMeta, subBlockLeftMeta, tagLeftMeta} |->
                 IF s = blockRightMeta THEN "lexBlockRightMeta"
                 ELSE IF s = subBlockLeftMeta THEN "lexSubBlockLeftMeta"
                 ELSE "lexTagLeftMeta"]]

lexBlockRightMeta ==
    [kind |-> "meta", typ |-> itemBlockRightMeta, next |-> "lexToBlock"]

lexSubBlockLeftMeta ==
    [kind |-> "meta", typ |-> itemSubBlockLeftMeta, next |-> "lexSubBlockLabel"]

lexSubBlockLabel ==
    [kind |-> "text", typ |-> itemSubBlockLabel,
     next |-> [s \in {subBlockLabelMeta} |-> "lexSubBlockLabelMeta"]]

lexSubBlockLabelMeta ==
    [kind |-> "meta", typ |-> itemSubBlockLabelMeta, next |-> "lexSubBlockContent"]

lexSubBlockContent ==
    [kind |-> "text", typ |-> itemSubBlockContent,
     next |-> [s \in {subBlockRightMeta} |-> "lexSubBlockRightMeta"]]

lexSubBlockRightMeta ==
    [kind |-> "meta", typ |-> itemSubBlockRightMeta, next |-> "lexBlockContent"]

lexTagLeftMeta ==
    [kind |-> "meta", typ |-> itemTagLeftMeta, next |-> "lexTagContent"]

lexTagContent ==
    [kind |-> "text", typ |-> itemTagContent,
     next |-> [s \in {tagRightMeta} |-> "lexTagRightMeta"]]

lexTagRightMeta ==
    [kind |-> "meta", typ |-> itemTagRightMeta, next |-> "lexFieldContent"]

lexFieldContent ==
    [kind |-> "text", typ |-> itemFieldContent,
     next |-> [s \in {tagLeftMeta, fieldsRightMeta} |->
                 IF s = tagLeftMeta THEN "lexTagLeftMeta" ELSE "lexBlockContent"]]

stateFn(name) ==
    CASE name = "lexToBlock" -> lexToBlock
      [] name = "lexBlockLeftMeta" -> lexBlockLeftMeta
      [] name = "lexBlockLabel" -> lexBlockLabel
      [] name = "lexBlockLabelMeta" -> lexBlockLabelMeta
      [] name = "lexBlockContent" -> lexBlockContent
      [] name = "lexBlockRightMeta" -> lexBlockRightMeta
      [] name = "lexSubBlockLeftMeta" -> lexSubBlockLeftMeta
      [] name = "lexSubBlockLabel" -> lexSubBlockLabel
      [] name = "lexSubBlockLabelMeta" -> lexSubBlockLabelMeta
      [] name = "lexSubBlockContent" -> lexSubBlockContent
      [] name = "lexSubBlockRightMeta" -> lexSubBlockRightMeta
      [] name = "lexTagLeftMeta" -> lexTagLeftMeta
      [] name = "lexTagContent" -> lexTagContent
      [] name = "lexTagRightMeta" -> lexTagRightMeta
      [] name = "lexFieldContent" -> lexFieldContent

item(typ, val, line) == [typ |-> typ, val |-> val, line |-> line]

\* lexer.next: one ReadRune.  "eof" at the end of the input, "err" when the
\* reader fails, otherwise the rune is appended to buff and a newline
\* advances line.
next(in, fail, pos, buff, line) ==
    IF fail = pos THEN [r |-> "err", pos |-> pos, buff |-> buff, line |-> line]
    ELSE IF pos > Len(in) THEN [r |-> "eof", pos |-> pos, buff |-> buff, line |-> line]
    ELSE [r |-> in[pos], pos |-> pos + 1, buff |-> Append(buff, in[pos]),
          line |-> IF in[pos] = "\n" THEN line + 1 ELSE line]

\* An item the parser ignores in the place of the error item.
errorf_ignored(line) == item(itemIgnore, ReadErrorText, line)

\* lexer.errorf as called by lexer.next: the error item it sends.
errorf(line) == item(itemError, ReadErrorText, line)

\* One iteration of the loop of lexer.lexText, on the lexer record l: when
\* buff ends with a suffix of the map, the text before it is to be emitted,
\* the suffix stays in buff and the state of the suffix is returned.
\* Otherwise one rune is read; at "eof" the loop is left, the text and
\* itemEOF are to be emitted and nil is returned (after the error item of
\* lexer.next when the read failed).  pend holds the items to send, in order;
\* buff is the buffer once they are sent.
lexText(l, typ, nextMap, in, fail) ==
    IF \E s \in DOMAIN nextMap : HasSuffix(l.buff, s)
    THEN LET s == CHOOSE s \in DOMAIN nextMap : HasSuffix(l.buff, s)
         IN [l EXCEPT !.pc = "emit",
                      !.pend = <<item(typ, SubSeq(l.buff, 1, Len(l.buff) - Len(s)), l.line)>>,
                      !.buff = s,
                      !.state = nextMap[s]]
    ELSE LET n == next(in, fail, l.pos, l.buff, l.line)
         IN IF n.r \in {"eof", "err"}
            THEN [l EXCEPT !.pc = "emit",
                           !.pend = (IF n.r = "err" THEN <<errorf(l.line)>> ELSE <<>>)
                                    \o <<item(typ, l.buff, l.line), item(itemEOF, <<>>, l.line)>>,
                           !.buff = <<>>,
                           !.state = "nil"]
            ELSE [l EXCEPT !.pc = "text", !.pos = n.pos, !.buff = n.buff, !.line = n.line]

\* lexer.lexMeta: emit what is in the buffer and go to the next state.
lexMeta(l, typ, nextState) ==
    [l EXCEPT !.pc = "emit", !.pend = <<item(typ, l.buff, l.line)>>, !.buff = <<>>,
              !.state = nextState]

(***************************************************************************)
(* The block parser.                                                       *)
(***************************************************************************)
blockLabelBasicHeader == <<"1">>
blockLabelAppHeader == <<"2">>
blockLabelUsrHeader == <<"3">>
blockLabelBody == <<"4">>
blockLabelTrailers == <<"5">>

NoFields == [t \in {} |-> <<>>]

SubBlock(label, content) == [Label |-> label, Content |-> content]

newMessageSubBlock == SubBlock(<<>>, <<>>)

Block(label, content, fields, subs) ==
    [Label |-> label, Content |-> content, Fields |-> fields, Blocks |-> subs]

newBlock == Block(<<>>, <<>>, NoFields, <<>>)

\* fmt.Sprintf("{%s:%s}", label, content)
RawBlock(label, content) == <<"{">> \o label \o <<":">> \o content \o <<"}">>

\* The last block of blocks that has the label, or the zero Block.
RECURSIVE LastLabelled(_, _, _)
LastLabelled(blocks, label, dflt) ==
    IF blocks = <<>> THEN dflt
    ELSE LET b == blocks[Len(blocks)]
         IN IF b.Label = label THEN b
            ELSE LastLabelled(SubSeq(blocks, 1, Len(blocks) - 1), label, dflt)

HasLabel(blocks, label) == \E i \in 1..Len(blocks) : blocks[i].Label = label

\* blocksToMessage with Raw put together in the order of the blocks.
RECURSIVE RawInWireOrder(_)
RawInWireOrder(blocks) ==
    IF blocks = <<>> THEN <<>>
    ELSE (IF Head(blocks).Label \in {<<"1">>, <<"2">>, <<"3">>, <<"4">>, <<"5">>}
          THEN RawBlock(Head(blocks).Label, Head(blocks).Content) ELSE <<>>)
         \o RawInWireOrder(Tail(blocks))

blocksToMessage_wireOrder(blocks, line) ==
    [Line |-> line,
     Raw |-> RawInWireOrder(blocks),
     BasicHeader |-> LastLabelled(blocks, <<"1">>, newBlock),
     AppHeader |-> LastLabelled(blocks, <<"2">>, newBlock),
     UsrHeader |-> LastLabelled(blocks, <<"3">>, newBlock),
     Body |-> LastLabelled(blocks, <<"4">>, newBlock).Fields,
     Trailers |-> LastLabelled(blocks, <<"5">>, newBlock),
     No |-> 0]

\* parser.blocksToMessage.  No is a history field (the ordinal of the message
\* among those the parser sent); the source has no such field.
blocksToMessage(blocks, line) ==
    LET raw(label) == IF HasLabel(blocks, label)
                      THEN RawBlock(label, LastLabelled(blocks, label, newBlock).Content)
                      ELSE <<>>
    IN [Line |-> line,
        Raw |-> raw(blockLabelBasicHeader) \o raw(blockLabelAppHeader)
                \o raw(blockLabelUsrHeader) \o raw(blockLabelBody)
                \o raw(blockLabelTrailers),
        BasicHeader |-> LastLabelled(blocks, blockLabelBasicHeader, newBlock),
        AppHeader |-> LastLabelled(blocks, blockLabelAppHeader, newBlock),
        UsrHeader |-> LastLabelled(blocks, blockLabelUsrHeader, newBlock),
        Body |-> LastLabelled(blocks, blockLabelBody, newBlock).Fields,
        Trailers |-> LastLabelled(blocks, blockLabelTrailers, newBlock),
        No |-> 0]

\* sendMessage with an off-by-one guard: a message of one block is not sent.
sendMessage_offByOne(p) ==
    IF Len(p.blocks) > 1
    THEN <<[blocksToMessage(p.blocks, p.currLine) EXCEPT !.No = p.sent + 1]>>
    ELSE <<>>

\* The closure sendMessage of parser.run: the messages it sends (none or one).
sendMessage(p) ==
    IF Len(p.blocks) > 0
    THEN <<[blocksToMessage(p.blocks, p.currLine) EXCEPT !.No = p.sent + 1]>>
    ELSE <<>>

\* The value takes the place of the values the tag had.
appendField_overwrite(fields, tag, value) ==
    [t \in DOMAIN fields \cup {tag} |-> IF t = tag THEN <<value>> ELSE fields[t]]

\* currBlock.Fields[currTag] = append(currBlock.Fields[currTag], value)
appendField(fields, tag, value) ==
    [t \in DOMAIN fields \cup {tag} |->
        IF t = tag
        THEN (IF tag \in DOMAIN fields THEN fields[tag] ELSE <<>>) \o <<value>>
        ELSE fields[t]]

\* message.Error sent by the parser for an error item.
parserError(it, p) == [Err |-> it.val, Line |-> p.currLine]

\* A block whose label is that of the application header starts a message.
startsMessage_appHeader(label) == label = blockLabelAppHeader

\* parser.run, case itemBlockLabel: item.val == blockLabelBasicHeader, a new
\* basic header block means a new message.
startsMessage(label) == label = blockLabelBasicHeader

\* One iteration of the loop of parser.run on item it: the new locals, what
\* is sent on p.messages and on p.errors, and whether the loop is left.
parserItem(p, it, stopOnError) ==
    LET same == [p |-> p, msgs |-> <<>>, errs |-> <<>>, stop |-> FALSE]
    IN CASE it.typ = itemBlockLabel ->
              LET q == IF startsMessage(it.val)
                       THEN [p EXCEPT !.currLine = it.line, !.blocks = <<>>,
                                      !.sent = p.sent + Len(sendMessage(p))]
                       ELSE p
              IN [same EXCEPT
                    !.p = [q EXCEPT !.currBlock = [newBlock EXCEPT !.Label = it.val]],
                    !.msgs = IF startsMessage(it.val) THEN sendMessage(p) ELSE <<>>]
         [] it.typ = itemBlockContent ->
              [same EXCEPT !.p = [p EXCEPT !.currBlock.Content = it.val]]
         [] it.typ = itemSubBlockLeftMeta ->
              [same EXCEPT !.p = [p EXCEPT !.currSubBlock = newMessageSubBlock]]
         [] it.typ = itemSubBlockLabel ->
              [same EXCEPT !.p = [p EXCEPT !.currSubBlock.Label = it.val]]
         [] it.typ = itemSubBlockContent ->
              [same EXCEPT !.p = [p EXCEPT !.currSubBlock.Content = it.val]]
         [] it.typ = itemSubBlockRightMeta ->
              [same EXCEPT !.p = [p EXCEPT !.currBlock.Blocks =
                                      Append(p.currBlock.Blocks, p.currSubBlock)]]
         [] it.typ = itemTagContent ->
              [same EXCEPT !.p = [p EXCEPT !.currTag = it.val]]
         [] it.typ = itemFieldContent ->
              [same EXCEPT !.p = [p EXCEPT
                    !.currBlock.Fields =
                        appendField(p.currBlock.Fields, p.currTag, TrimSpace(it.val)),
                    !.currTag = <<>>]]
         [] it.typ = itemBlockRightMeta ->
              [same EXCEPT !.p = [p EXCEPT !.blocks = Append(p.blocks, p.currBlock)]]
         [] it.typ = itemError ->
              [same EXCEPT !.errs = <<parserError(it, p)>>, !.stop = stopOnError]
         [] it.typ = itemEOF ->
              [same EXCEPT !.p = [p EXCEPT !.sent = p.sent + Len(sendMessage(p))],
                           !.msgs = sendMessage(p), !.stop = TRUE]
         [] OTHER -> same

(***************************************************************************)
(* Dates and times (time.Parse with the layouts of the package).           *)
(***************************************************************************)
IsDigits(s) == \A i \in 1..Len(s) : s[i] \in Digits

\* The two-digit number at the 0-based offset i of s.
Num2(s, i) == 10 * DigitVal(s[i + 1]) + DigitVal(s[i + 2])

\* time.Parse: the years 69..99 are 19yy, the years 00..68 are 20yy.
FullYear(yy) == IF yy >= 69 THEN 1900 + yy ELSE 2000 + yy

IsLeap(y) == y % 4 = 0 /\ (y % 100 # 0 \/ y % 400 = 0)

DaysIn(m, y) ==
    IF m = 2 THEN (IF IsLeap(y) THEN 29 ELSE 28)
    ELSE IF m \in {4, 6, 9, 11} THEN 30 ELSE 31

\* time.Parse(TimeFormatTime, s) succeeds.
ParsesTime(s) ==
    /\ Len(s) = 4 /\ IsDigits(s)
    /\ Num2(s, 0) < 24 /\ Num2(s, 2) < 60

\* time.Parse(TimeFormatDate, s) succeeds.
ParsesDate(s) ==
    /\ Len(s) = 6 /\ IsDigits(s)
    /\ Num2(s, 2) \in 1..12
    /\ Num2(s, 4) \in 1..DaysIn(Num2(s, 2), FullYear(Num2(s, 0)))

\* time.Parse(TimeFormatDateTime, s) succeeds.
ParsesDateTime(s) ==
    /\ Len(s) = 10
    /\ ParsesDate(SubSeq(s, 1, 6)) /\ ParsesTime(SubSeq(s, 7, 10))

\* time.Parse(TimeFormatDateTimeSec, s) succeeds.
ParsesDateTimeSec(s) ==
    /\ Len(s) = 12
    /\ ParsesDateTime(SubSeq(s, 1, 10))
    /\ IsDigits(SubSeq(s, 11, 12)) /\ Num2(s, 10) < 60

NoTime == [Set |-> FALSE, Raw |-> <<>>]

\* The UnmarshalMT of Time, Date, DateTime: the value and the error.
Unmarshalled(s, ok, what) ==
    IF ok THEN [v |-> [Set |-> TRUE, Raw |-> s], err |-> <<>>]
    ELSE [v |-> NoTime, err |-> <<what>>]

TimeUnmarshalMT(s) == Unmarshalled(s, ParsesTime(s), "invalid Time")

DateUnmarshalMT(s) == Unmarshalled(s, ParsesDate(s), "invalid Date")

DateTimeUnmarshalMT(s) == Unmarshalled(s, ParsesDateTime(s), "invalid DateTime")

DateOrDateTimeUnmarshalMT(s) ==
    IF Len(s) = 10
    THEN Unmarshalled(s, ParsesDateTime(s), "invalid DateOrDateTime date/time")
    ELSE Unmarshalled(s, ParsesDate(s), "invalid DateOrDateTime date")

DateTimeSecOptCentUnmarshalMT(s) ==
    IF Len(s) = 15
    THEN Unmarshalled(s, ParsesDateTimeSec(SubSeq(s, 1, 12)) /\ IsDigits(SubSeq(s, 13, 15)),
                      "invalid DateTimeSecOptCent")
    ELSE Unmarshalled(s, ParsesDateTimeSec(s), "invalid DateTimeSecOptCent")

(***************************************************************************)
(* The header decoders.  A decoder returns [v, err]: the header, possibly  *)
(* partly filled, and the errors; panic is set when the decoder slices     *)
(* past the end of its input.                                              *)
(***************************************************************************)
NoInputReference ==
    [Set |-> FALSE, Raw |-> <<>>, LogicalTerminalAddress |-> <<>>, SessionNumber |-> <<>>,
     SequenceNumber |-> <<>>, DateOrDateTime |-> NoTime]

basicHeaderBlockToBasicHeader(block) ==
    LET c == block.Content
        h0 == [Raw |-> <<"{", "1", ":">> \o c \o <<"}">>, AppID |-> "", ServiceID |-> "",
               LogicalTerminalAddress |-> <<>>, SessionNumber |-> <<>>, SequenceNumber |-> <<>>]
        appID == CASE Slice(c, 0, 1) = <<"F">> -> "F"
                   [] Slice(c, 0, 1) = <<"A">> -> "A"
                   [] Slice(c, 0, 1) = <<"L">> -> "L"
                   [] OTHER -> ""
        serviceID == CASE Slice(c, 1, 3) = <<"0", "1">> -> "01"
                       [] Slice(c, 1, 3) = <<"2", "1">> -> "21"
                       [] OTHER -> ""
    IN IF Len(c) # 25
       THEN [v |-> h0, err |-> <<"invalid basic header block content length">>]
       ELSE IF appID = ""
       THEN [v |-> h0, err |-> <<"unknown application id">>]
       ELSE IF serviceID = ""
       THEN [v |-> [h0 EXCEPT !.AppID = appID], err |-> <<"unknown service id">>]
       ELSE [v |-> [h0 EXCEPT !.AppID = appID, !.ServiceID = serviceID,
                              !.LogicalTerminalAddress = Slice(c, 3, 15),
                              !.SessionNumber = Slice(c, 15, 19),
                              !.SequenceNumber = Slice(c, 19, Len(c))],
             err |-> <<>>]

stringToMessageInputReferenceDate(str) ==
    LET mird == [NoInputReference EXCEPT !.Set = TRUE, !.Raw = str]
        withDate(date) ==
            IF date.err # <<>>
            THEN [v |-> mird, err |-> <<"invalid message input reference date">>]
            ELSE [v |-> [mird EXCEPT !.DateOrDateTime = date.v,
                                     !.LogicalTerminalAddress = Slice(str, 6, 18),
                                     !.SessionNumber = Slice(str, 18, 22),
                                     !.SequenceNumber = Slice(str, 22, Len(str))],
                  err |-> <<>>]
    IN IF Len(str) # 28
       THEN [v |-> mird, err |-> <<"invalid message input reference length">>]
       ELSE withDate(DateOrDateTimeUnmarshalMT(Slice(str, 0, 6)))

\* str[0:10] panics when str has fewer than 10 runes.
stringToMessageReference(str) ==
    LET mr == [Set |-> TRUE, Raw |-> str, DateTime |-> NoTime,
               MessageInputReference |-> NoInputReference]
        withMir(dateTime, mir) ==
            IF mir.err # <<>>
            THEN [v |-> [mr EXCEPT !.DateTime = dateTime.v],
                  err |-> <<"invalid message reference message input reference">>,
                  panic |-> FALSE]
            ELSE [v |-> [mr EXCEPT !.DateTime = dateTime.v, !.MessageInputReference = mir.v],
                  err |-> <<>>, panic |-> FALSE]
        withDateTime(dateTime) ==
            IF dateTime.err # <<>>
            THEN [v |-> mr, err |-> <<"invalid message reference date/time">>, panic |-> FALSE]
            ELSE withMir(dateTime, stringToMessageInputReferenceDate(Slice(str, 10, Len(str))))
    IN IF Len(str) < 10
       THEN [v |-> mr, err |-> <<>>, panic |-> TRUE]
       ELSE withDateTime(DateTimeUnmarshalMT(Slice(str, 0, 10)))

stringToMessageOutputReference(str) ==
    LET mor == [NoInputReference EXCEPT !.Set = TRUE, !.Raw = str]
        with28(dateTime) ==
            IF dateTime.err # <<>>
            THEN [v |-> mor, err |-> <<"invalid message output reference date/time">>]
            ELSE [v |-> [mor EXCEPT !.DateOrDateTime = dateTime.v,
                                    !.LogicalTerminalAddress = Slice(str, 6, 18),
                                    !.SessionNumber = Slice(str, 18, 23),
                                    !.SequenceNumber = Slice(str, 23, Len(str))],
                  err |-> <<>>]
        with32(dateTime) ==
            IF dateTime.err # <<>>
            THEN [v |-> mor, err |-> <<"invalid message output reference date/time">>]
            ELSE [v |-> [mor EXCEPT !.DateOrDateTime = dateTime.v,
                                    !.LogicalTerminalAddress = Slice(str, 10, 22),
                                    !.SessionNumber = Slice(str, 22, 27),
                                    !.SequenceNumber = Slice(str, 27, Len(str))],
                  err |-> <<>>]
    IN CASE Len(str) = 28 -> with28(DateOrDateTimeUnmarshalMT(Slice(str, 0, 6)))
         [] Len(str) = 32 ->
              with32(DateOrDateTimeUnmarshalMT(Slice(str, 4, 10) \o Slice(str, 0, 4)))
         [] OTHER -> [v |-> mor, err |-> <<>>]

\* The shape shared by stringToPossibleDuplicateEmission,
\* stringToPossibleDuplicateMessage and stringToSystemOriginatedMessage:
\* a length check, a time of 4 runes and then the reference ref.
timeAndReference(str, lengths, ref, what) ==
    LET v0 == [Raw |-> str, Time |-> NoTime, Reference |-> NoInputReference]
        withTime(time) ==
            IF time.err # <<>>
            THEN [v |-> v0, err |-> << <<what, "time">> >>]
            ELSE IF ref.err # <<>>
            THEN [v |-> [v0 EXCEPT !.Time = time.v], err |-> << <<what, "reference">> >>]
            ELSE [v |-> [v0 EXCEPT !.Time = time.v, !.Reference = ref.v], err |-> <<>>]
    IN IF Len(str) \notin lengths
       THEN [v |-> v0, err |-> << <<what, "string length">> >>]
       ELSE withTime(TimeUnmarshalMT(Slice(str, 0, 4)))

stringToPossibleDuplicateEmission(str) ==
    timeAndReference(str, {32}, stringToMessageInputReferenceDate(Slice(str, 4, Len(str))),
                     "possible duplicate emission")

stringToPossibleDuplicateMessage(str) ==
    timeAndReference(str, {32, 36}, stringToMessageOutputReference(Slice(str, 4, Len(str))),
                     "possible duplicate message")

stringToSystemOriginatedMessage(str) ==
    timeAndReference(str, {32}, stringToMessageInputReferenceDate(Slice(str, 4, Len(str))),
                     "system originated message")

obsolescenceMinutesPerFactor == 5

\* leadingZerosRegexp.ReplaceAll(chars, "")
RECURSIVE StripLeadingZeros(_)
StripLeadingZeros(s) ==
    IF s # <<>> /\ Head(s) = "0" THEN StripLeadingZeros(Tail(s)) ELSE s

RECURSIVE DecimalValue(_)
DecimalValue(s) ==
    IF s = <<>> THEN 0 ELSE 10 * DecimalValue(SubSeq(s, 1, Len(s) - 1)) + DigitVal(s[Len(s)])

\* strconv.Atoi: an optional sign and at least one digit.
Atoi(s) ==
    LET signed == s # <<>> /\ Head(s) \in {"+", "-"}
        digits == IF signed THEN Tail(s) ELSE s
    IN IF digits = <<>> \/ ~IsDigits(digits) THEN [ok |-> FALSE, n |-> 0]
       ELSE [ok |-> TRUE,
             n |-> IF signed /\ Head(s) = "-" THEN 0 - DecimalValue(digits)
                   ELSE DecimalValue(digits)]

\* The closures of appHeaderBlockToAppHeaderInput: each returns the header
\* and the error.
setPriority(h, char) ==
    IF char \in {<<"S">>, <<"N">>, <<"U">>}
    THEN [v |-> [h EXCEPT !.MessagePriority = char[1]], err |-> <<>>]
    ELSE [v |-> h, err |-> <<"unknown message priority">>]

setDeliveryMonitor(h, char) ==
    IF char \in {<<"1">>, <<"2">>, <<"3">>}
    THEN [v |-> [h EXCEPT !.DeliveryMonitor = char[1]], err |-> <<>>]
    ELSE [v |-> h, err |-> <<"invalid delivery monitor">>]

setPriorityOrDeliveryMonitor(h, char) ==
    IF char \in {<<"S">>, <<"N">>, <<"U">>} THEN setPriority(h, char)
    ELSE IF char \in {<<"1">>, <<"2">>, <<"3">>} THEN setDeliveryMonitor(h, char)
    ELSE [v |-> h, err |-> <<"invalid priority or delivery monitor">>]

setObsolescencePeriod(h, chars) ==
    LET withFactor(factor) ==
            IF ~factor.ok THEN [v |-> h, err |-> <<"invalid obsolescence period">>]
            ELSE [v |-> [h EXCEPT !.ObsolescencePeriodInMinutes =
                                      factor.n * obsolescenceMinutesPerFactor],
                  err |-> <<>>]
    IN withFactor(Atoi(StripLeadingZeros(chars)))

NoAppHeaderInput ==
    [Set |-> FALSE, Raw |-> <<>>, ObsolescencePeriodInMinutes |-> 0, MessageType |-> <<>>,
     ReceiverAddress |-> <<>>, MessagePriority |-> "", DeliveryMonitor |-> ""]

NoAppHeaderOutput ==
    [Set |-> FALSE, Raw |-> <<>>, MessagePriority |-> "", MessageType |-> <<>>,
     MessageInputReference |-> NoInputReference, InputTime |-> NoTime,
     OutputDate |-> NoTime, OutputTime |-> NoTime]

appHeaderBlockToAppHeaderInput(block) ==
    LET c == block.Content
        n == Len(c)
        h0 == [NoAppHeaderInput EXCEPT !.Raw = <<"{", "2", ":">> \o c \o <<"}">>]
        h1 == [h0 EXCEPT !.Set = TRUE, !.MessageType = Slice(c, 1, 4),
                         !.ReceiverAddress = Slice(c, 4, 16)]
        \* the step after a closure returned r: its error, or what rest returns
        then(r, rest(_)) == IF r.err # <<>> THEN r ELSE rest(r.v)
        monitor(h) == setDeliveryMonitor(h, Slice(c, 17, 18))
        period17(h) == setObsolescencePeriod(h, Slice(c, 17, n))
        period18(h) == setObsolescencePeriod(h, Slice(c, 18, n))
        monitorAndPeriod(h) == then(monitor(h), period18)
    IN IF n < 16
       THEN [v |-> h0, err |-> <<"invalid app header input block content length">>]
       ELSE CASE n = 16 -> [v |-> h1, err |-> <<>>]
              [] n = 17 -> setPriorityOrDeliveryMonitor(h1, Slice(c, 16, 17))
              [] n = 18 -> then(setPriority(h1, Slice(c, 16, 17)), monitor)
              [] n = 19 -> setObsolescencePeriod(h1, Slice(c, 16, n))
              [] n = 20 -> then(setPriorityOrDeliveryMonitor(h1, Slice(c, 16, 17)), period17)
              [] n = 21 -> then(setPriority(h1, Slice(c, 16, 17)), monitorAndPeriod)
              [] OTHER -> [v |-> h1, err |-> <<"invalid app header input block content length">>]

appHeaderBlockToAppHeaderOutput(block) ==
    LET c == block.Content
        h0 == [NoAppHeaderOutput EXCEPT !.Raw = <<"{", "2", ":">> \o c \o <<"}">>]
        h1 == [h0 EXCEPT !.Set = TRUE, !.MessageType = Slice(c, 1, 4)]
        decoded(inputTime, outputDate, outputTime, mird) ==
            LET h2 == [h1 EXCEPT !.InputTime = inputTime.v]
                h3 == [h2 EXCEPT !.OutputDate = outputDate.v]
                h4 == [h3 EXCEPT !.OutputTime = outputTime.v]
                h5 == [h4 EXCEPT !.MessageInputReference = mird.v]
            IN IF inputTime.err # <<>> THEN [v |-> h1, err |-> <<"invalid input time">>]
               ELSE IF outputDate.err # <<>> THEN [v |-> h2, err |-> <<"invalid output date">>]
               ELSE IF outputTime.err # <<>> THEN [v |-> h3, err |-> <<"invalid output time">>]
               ELSE IF mird.err # <<>>
               THEN [v |-> h4, err |-> <<"could not parse message input reference">>]
               ELSE IF Len(c) = 47 /\ c[47] \notin {"N", "S", "U"}
               THEN [v |-> h5, err |-> <<"invalid message priority">>]
               ELSE [v |-> IF Len(c) = 47 THEN [h5 EXCEPT !.MessagePriority = c[47]] ELSE h5,
                     err |-> <<>>]
    IN IF Len(c) < 46
       THEN [v |-> h0, err |-> <<"invalid app header output block content length">>]
       ELSE decoded(TimeUnmarshalMT(Slice(c, 4, 8)), DateUnmarshalMT(Slice(c, 36, 42)),
                    TimeUnmarshalMT(Slice(c, 42, 46)),
                    stringToMessageInputReferenceDate(Slice(c, 8, 36)))

\* Returns both app headers and the error.
appHeaderBlockToAppHeader(block) ==
    LET c == block.Content
        asInput(r) == [in |-> r.v, out |-> NoAppHeaderOutput, err |-> r.err]
        asOutput(r) == [in |-> NoAppHeaderInput, out |-> r.v, err |-> r.err]
    IN IF Len(c) < 4
       THEN [in |-> NoAppHeaderInput, out |-> NoAppHeaderOutput,
             err |-> <<"invalid app header block content length">>]
       ELSE CASE Slice(c, 0, 1) = <<"I">> -> asInput(appHeaderBlockToAppHeaderInput(block))
              [] Slice(c, 0, 1) = <<"O">> -> asOutput(appHeaderBlockToAppHeaderOutput(block))
              [] OTHER ->
                   [in |-> NoAppHeaderInput, out |-> NoAppHeaderOutput,
                    err |-> <<"invalid app header message type">>]

\* The labels of block 3 whose content is stored as it is.
UsrHeaderTextLabels ==
    {<<"1", "0", "3">>, <<"1", "0", "8">>, <<"1", "1", "1">>, <<"1", "1", "3">>,
     <<"1", "1", "5">>, <<"1", "1", "9">>, <<"1", "2", "1">>, <<"1", "6", "5">>,
     <<"4", "2", "4">>, <<"4", "3", "3">>, <<"4", "3", "4">>}

\* usrHeaderBlockToUsrHeader on one sub-block: the loop body.  Text holds
\* the members filled from the labels of UsrHeaderTextLabels.
usrHeaderSubBlock(acc, sb) ==
    LET withMir(mir) ==
            IF mir.err # <<>>
            THEN [acc EXCEPT !.err = Append(acc.err, "invalid message input reference")]
            ELSE [acc EXCEPT !.v.MessageInputReference = mir.v]
        withCheckpoint(bal) ==
            IF bal.err # <<>>
            THEN [acc EXCEPT !.err = Append(acc.err, "invalid balance checkpoint time")]
            ELSE [acc EXCEPT !.v.BalanceCheckpointDateTime = bal.v]
    IN CASE sb.Label \in UsrHeaderTextLabels ->
              [acc EXCEPT !.v.Text = [l \in DOMAIN acc.v.Text \cup {sb.Label} |->
                                        IF l = sb.Label THEN sb.Content ELSE acc.v.Text[l]]]
         [] sb.Label = <<"1", "0", "6">> ->
              withMir(stringToMessageInputReferenceDate(sb.Content))
         [] sb.Label = <<"4", "2", "3">> ->
              withCheckpoint(DateTimeSecOptCentUnmarshalMT(sb.Content))
         [] OTHER ->
              [acc EXCEPT !.err = Append(acc.err, "invalid usr header block sub block label")]

\* The loop with a return at the first error.
RECURSIVE usrHeaderLoop_stopAtError(_, _)
usrHeaderLoop_stopAtError(acc, subs) ==
    IF subs = <<>> \/ acc.err # <<>> THEN acc
    ELSE usrHeaderLoop_stopAtError(usrHeaderSubBlock(acc, Head(subs)), Tail(subs))

RECURSIVE usrHeaderLoop(_, _)
usrHeaderLoop(acc, subs) ==
    IF subs = <<>> THEN acc ELSE usrHeaderLoop(usrHeaderSubBlock(acc, Head(subs)), Tail(subs))

usrHeaderBlockToUsrHeader(block) ==
    usrHeaderLoop([v |-> [Set |-> TRUE, Raw |-> <<"{", "3", ":">> \o block.Content \o <<"}">>,
                          Text |-> NoFields, BalanceCheckpointDateTime |-> NoTime,
                          MessageInputReference |-> NoInputReference],
                   err |-> <<>>],
                  block.Blocks)

NoTimeAndReference == [Raw |-> <<>>, Time |-> NoTime, Reference |-> NoInputReference]

NoReference ==
    [Set |-> FALSE, Raw |-> <<>>, DateTime |-> NoTime, MessageInputReference |-> NoInputReference]

\* trailersBlockToTrailers on one sub-block: the loop body.
trailersSubBlock(acc, sb) ==
    LET a == [acc EXCEPT !.v.Raw = acc.v.Raw \o RawBlock(sb.Label, sb.Content)]
        more(r, what) == IF r.err # <<>> THEN Append(acc.err, what) ELSE acc.err
        withPDE(r) == [a EXCEPT !.v.PossibleDuplicateEmission = r.v,
                                !.err = more(r, "invalid possible duplicate emission")]
        withMRF(r) == IF r.panic THEN [a EXCEPT !.panic = TRUE]
                      ELSE [a EXCEPT !.v.MessageReference = r.v,
                                     !.err = more(r, "invalid message reference")]
        withPDM(r) == [a EXCEPT !.v.PossibleDuplicateMessage = r.v,
                                !.err = more(r, "invalid possible duplicate message")]
        withSYS(r) == [a EXCEPT !.v.SystemOriginatedMessage = r.v,
                                !.err = more(r, "invalid system originated message")]
    IN CASE sb.Label = <<"C", "H", "K">> -> [a EXCEPT !.v.Checksum = sb.Content]
         [] sb.Label = <<"T", "N", "G">> -> [a EXCEPT !.v.TestAndTrainingMessage = TRUE]
         [] sb.Label = <<"P", "D", "E">> -> withPDE(stringToPossibleDuplicateEmission(sb.Content))
         [] sb.Label = <<"D", "L", "M">> -> [a EXCEPT !.v.DelayedMessage = TRUE]
         [] sb.Label = <<"M", "R", "F">> -> withMRF(stringToMessageReference(sb.Content))
         [] sb.Label = <<"P", "D", "M">> -> withPDM(stringToPossibleDuplicateMessage(sb.Content))
         [] sb.Label = <<"S", "Y", "S">> -> withSYS(stringToSystemOriginatedMessage(sb.Content))
         [] OTHER ->
              [a EXCEPT !.v.AdditionalTrailers =
                          [l \in DOMAIN acc.v.AdditionalTrailers \cup {sb.Label} |->
                             IF l = sb.Label THEN sb.Content ELSE acc.v.AdditionalTrailers[l]]]

\* The loop stops at a panic.
RECURSIVE trailersLoop(_, _)
trailersLoop(acc, subs) ==
    IF subs = <<>> \/ acc.panic THEN acc
    ELSE trailersLoop(trailersSubBlock(acc, Head(subs)), Tail(subs))

trailersBlockToTrailers(block) ==
    LET closeRaw(r) == [r EXCEPT !.v.Raw = r.v.Raw \o <<"}">>]
    IN closeRaw(trailersLoop([v |-> [Set |-> TRUE, Raw |-> <<"{", "5", ":">>,
                                     Checksum |-> <<>>,
                                     DelayedMessage |-> FALSE, TestAndTrainingMessage |-> FALSE,
                                     MessageReference |-> NoReference,
                                     PossibleDuplicateEmission |-> NoTimeAndReference,
                                     PossibleDuplicateMessage |-> NoTimeAndReference,
                                     SystemOriginatedMessage |-> NoTimeAndReference,
                                     AdditionalTrailers |-> NoFields],
                              err |-> <<>>, panic |-> FALSE],
                             block.Blocks))

\* mt.NewError; no is a history field, the ordinal of the message the error
\* is about (0 for an error of the lexer).
NewError(cause, line, no) == [cause |-> cause, line |-> line, no |-> no]

\* The Errors of one decoder, each wrapped with the name of its header.
wrapErrors(what, errs, msg) ==
    [i \in 1..Len(errs) |-> NewError(<<what, errs[i]>>, msg.Line, msg.No)]

\* messageToMTx: the MTx, the Errors (empty for nil) and whether it panics.
\* No is the history field of the message.
messageToMTx(msg) ==
    LET decoded(msgHeader, appHeader, usrHeader, trailers) ==
            [mtx |-> [Raw |-> msg.Raw, Body |-> msg.Body, Line |-> msg.Line, No |-> msg.No,
                      BasicHeader |-> msgHeader.v,
                      AppHeaderInput |-> appHeader.in, AppHeaderOutput |-> appHeader.out,
                      UsrHeader |-> usrHeader.v, Trailers |-> trailers.v],
             errors |-> wrapErrors("invalid basic header", msgHeader.err, msg)
                        \o wrapErrors("invalid app header", appHeader.err, msg)
                        \o wrapErrors("invalid user header", usrHeader.err, msg)
                        \o wrapErrors("invalid trailers", trailers.err, msg),
             panic |-> trailers.panic]
    IN decoded(basicHeaderBlockToBasicHeader(msg.BasicHeader),
               appHeaderBlockToAppHeader(msg.AppHeader),
               usrHeaderBlockToUsrHeader(msg.UsrHeader),
               trailersBlockToTrailers(msg.Trailers))

\* IsInput reading the flag of the output header.
IsInput_outputFlag(b) == b.AppHeaderOutput.Set

\* Base.IsInput, Base.IsOutput, Base.HasUserHeader, Base.HasTrailers, Base.Type
IsInput(b) == b.AppHeaderInput.Set

IsOutput(b) == b.AppHeaderOutput.Set

HasUserHeader(b) == b.UsrHeader.Set

HasTrailers(b) == b.Trailers.Set

Type(b) == IF IsInput(b) THEN b.AppHeaderInput.MessageType ELSE b.AppHeaderOutput.MessageType

(***************************************************************************)
(* The inputs: a list of complete blocks, rendered to text, followed by an *)
(* unterminated tail.                                                      *)
(***************************************************************************)
WBlock(label, text, subs, fields) ==
    [label |-> label, text |-> text, subs |-> subs, fields |-> fields]

RECURSIVE RenderSubs(_)
RenderSubs(subs) ==
    IF subs = <<>> THEN <<>>
    ELSE RawBlock(Head(subs).Label, Head(subs).Content) \o RenderSubs(Tail(subs))

RECURSIVE RenderFields(_)
RenderFields(fields) ==
    IF fields = <<>> THEN <<>>
    ELSE <<":">> \o Head(fields)[1] \o <<":">> \o Head(fields)[2] \o <<"\n">>
         \o RenderFields(Tail(fields))

RenderBlock(b) ==
    RawBlock(b.label,
             IF b.subs # <<>> THEN RenderSubs(b.subs)
             ELSE IF b.fields # <<>> THEN <<"\n">> \o RenderFields(b.fields) \o <<"-">>
             ELSE b.text)

RECURSIVE Render(_, _)
Render(w, s) ==
    IF w = <<>> THEN <<>>
    ELSE RenderBlock(Head(w)) \o (IF Tail(w) = <<>> THEN <<>> ELSE s \o Render(Tail(w), s))

NoSubs == <<>>
NoPairs == <<>>

\* Blocks with short contents, for the block structure.
PlainBasic == WBlock(<<"1">>, <<"a">>, NoSubs, NoPairs)
PlainApp == WBlock(<<"2">>, <<"b">>, NoSubs, NoPairs)
PlainOther == WBlock(<<"9">>, <<"z">>, NoSubs, NoPairs)
PlainUsr == WBlock(<<"3">>, <<>>, <<SubBlock(<<"1">>, <<"u">>)>>, NoPairs)
PlainBody ==
    WBlock(<<"4">>, <<>>, NoSubs,
           << <<<<"6", "1">>, <<"x">>>>, <<<<"2", "0">>, <<"r", "\n", "s">>>>,
              <<<<"6", "1">>, <<"y">>>>, <<<<"6", "1">>, <<"x">>>> >>)
PlainBody2 == WBlock(<<"4">>, <<>>, NoSubs, << <<<<"2", "0">>, <<"q">>>> >>)
PlainTrailers ==
    WBlock(<<"5">>, <<>>, <<SubBlock(<<"C", "H", "K">>, <<"c">>), SubBlock(<<"T", "N", "G">>, <<>>)>>,
           NoPairs)

PlainPieces ==
    {PlainBasic, PlainApp, PlainOther, PlainUsr, PlainBody, PlainBody2, PlainTrailers}

LivePieces == {PlainBasic, PlainApp, PlainBody}

\* A message of the five blocks in the order 1-2-3-4-5: block 3 and block 5
\* hold sub-blocks, block 4 holds fields.
PlainFull == <<PlainBasic, PlainApp, PlainUsr, PlainBody, PlainTrailers>>

\* Blocks with the contents the header decoders read.
HdrBasic ==
    WBlock(<<"1">>,
           <<"F", "0", "1", "S", "C", "B", "L", "Z", "A", "J", "J", "X", "X",
           "X", "X", "5", "7", "1", "2", "1", "0", "0", "0", "0", "2">>,
           NoSubs, NoPairs)

HdrAppIn ==
    WBlock(<<"2">>,
           <<"I", "9", "4", "0", "S", "C", "B", "L", "Z", "A", "J", "J", "X",
           "X", "X", "X", "N", "2", "0", "2", "0">>,
           NoSubs, NoPairs)

HdrAppIn103 ==
    WBlock(<<"2">>,
           <<"I", "1", "0", "3", "S", "C", "B", "L", "Z", "A", "J", "J", "X",
           "X", "X", "X", "N">>,
           NoSubs, NoPairs)

HdrAppOut ==
    WBlock(<<"2">>,
           <<"O", "9", "4", "0", "1", "1", "5", "7", "0", "9", "1", "0", "2",
           "8", "S", "C", "B", "L", "Z", "A", "J", "J", "X", "X", "X", "X",
           "5", "7", "1", "2", "1", "0", "0", "0", "0", "2", "0", "9", "1",
           "0", "2", "8", "1", "1", "5", "7", "U">>,
           NoSubs, NoPairs)

HdrUsr == WBlock(<<"3">>, <<>>, <<SubBlock(<<"1", "0", "8">>, <<"r">>)>>, NoPairs)

\* A trailers block whose MRF sub-block has fewer than 10 runes.
ShortMRF ==
    WBlock(<<"5">>, <<>>, <<SubBlock(<<"M", "R", "F">>, <<"1", "2", "3">>)>>, NoPairs)

\* Messages: the blocks from one block 1 to the next.
MsgInput == <<HdrBasic, HdrAppIn>>
MsgInput103 == <<HdrBasic, HdrAppIn103>>
MsgOutput == <<HdrBasic, HdrAppOut, HdrUsr, PlainBody, PlainTrailers>>
MsgBadHeaders == <<PlainBasic, PlainApp>>
MsgBadUsr == <<HdrBasic, HdrAppIn, PlainUsr>>
MsgNoBasic == <<HdrAppIn>>
MsgShortMRF == <<HdrBasic, HdrAppIn, ShortMRF>>

\* Bodies of MT940 messages: the fields 20, 25, 28C, 60F and 61.
\* Every mandatory field, each matching its pattern.
Body940 ==
    WBlock(<<"4">>, <<>>, NoSubs,
           << <<<<"2", "0">>, <<"R">>>>,
              <<<<"2", "5">>, <<"A", "B", "C", "D", "E", "F", "G", "H", "/", "1", "2", "3", "4", "5", "6", "7", "8", "9", "0", "1", "2">>>>,
              <<<<"2", "8", "C">>, <<"0", "0", "0", "0", "1">>>>,
              <<<<"6", "0", "F">>, <<"C", "0", "3", "1", "0", "0", "2", "P", "L", "N", "1", ",", "0", "0">>>> >>)
\* Field 28C violates its pattern 5n[/3n].
Body940BadNumber ==
    WBlock(<<"4">>, <<>>, NoSubs,
           << <<<<"2", "0">>, <<"R">>>>,
              <<<<"2", "5">>, <<"A", "B", "C", "D", "E", "F", "G", "H", "/", "1", "2", "3", "4", "5", "6", "7", "8", "9", "0", "1", "2">>>>,
              <<<<"2", "8", "C">>, <<"1">>>>,
              <<<<"6", "0", "F">>, <<"C", "0", "3", "1", "0", "0", "2", "P", "L", "N", "1", ",", "0", "0">>>> >>)
\* The mandatory field 60F is missing.
Body940NoBalance ==
    WBlock(<<"4">>, <<>>, NoSubs,
           << <<<<"2", "0">>, <<"R">>>>,
              <<<<"2", "5">>, <<"A", "B", "C", "D", "E", "F", "G", "H", "/", "1", "2", "3", "4", "5", "6", "7", "8", "9", "0", "1", "2">>>>,
              <<<<"2", "8", "C">>, <<"0", "0", "0", "0", "1">>>> >>)
\* Field 60F is too short for a balance.
Body940BadBalance ==
    WBlock(<<"4">>, <<>>, NoSubs,
           << <<<<"2", "0">>, <<"R">>>>,
              <<<<"2", "5">>, <<"A", "B", "C", "D", "E", "F", "G", "H", "/", "1", "2", "3", "4", "5", "6", "7", "8", "9", "0", "1", "2">>>>,
              <<<<"2", "8", "C">>, <<"0", "0", "0", "0", "1">>>>,
              <<<<"6", "0", "F">>, <<"x">>>> >>)
\* Field 61 is shorter than the date it starts with.
Body940ShortLine ==
    WBlock(<<"4">>, <<>>, NoSubs,
           << <<<<"2", "0">>, <<"R">>>>,
              <<<<"2", "5">>, <<"A", "B", "C", "D", "E", "F", "G", "H", "/", "1", "2", "3", "4", "5", "6", "7", "8", "9", "0", "1", "2">>>>,
              <<<<"2", "8", "C">>, <<"0", "0", "0", "0", "1">>>>,
              <<<<"6", "0", "F">>, <<"C", "0", "3", "1", "0", "0", "2", "P", "L", "N", "1", ",", "0", "0">>>>,
              <<<<"6", "1">>, <<"x">>>> >>)

Msg940 == <<HdrBasic, HdrAppIn, Body940>>
Msg940BadNumber == <<HdrBasic, HdrAppIn, Body940BadNumber>>
Msg940NoBalance == <<HdrBasic, HdrAppIn, Body940NoBalance>>
Msg940BadBalance == <<HdrBasic, HdrAppIn, Body940BadBalance>>
Msg940ShortLine == <<HdrBasic, HdrAppIn, Body940ShortLine>>
Msg103Body == <<HdrBasic, HdrAppIn103, Body940>>

\* The lists of blocks made of at most n messages of S.
RECURSIVE MsgsUpTo(_, _)
MsgsUpTo(S, n) ==
    IF n = 0 THEN {<<>>}
    ELSE LET shorter == MsgsUpTo(S, n - 1)
         IN shorter \cup {w \o m : w \in shorter, m \in S}

Tails == {<<>>, <<"{", "1", ":", "F">>, <<"{", "2", ":", "F">>}
Seps == {<<>>, <<"\n">>}

RECURSIVE SeqsUpTo(_, _)
SeqsUpTo(S, n) ==
    IF n = 0 THEN {<<>>}
    ELSE LET shorter == SeqsUpTo(S, n - 1)
         IN shorter \cup {Append(w, b) : w \in shorter, b \in S}

FailPoints(in) == {0, 1, Len(in) + 1}

(***************************************************************************)
(* The goroutines.                                                         *)
(***************************************************************************)
lexerInit ==
    [pc |-> "run", state |-> "lexToBlock", buff |-> <<>>, line |-> 1, pos |-> 1,
     pend |-> <<>>, spins |-> 0]

parserInit ==
    [pc |-> "recv", blocks |-> <<>>, currLine |-> 1, currBlock |-> newBlock,
     currSubBlock |-> newMessageSubBlock, currTag |-> <<>>, sent |-> 0,
     msgs |-> <<>>, errs |-> <<>>, stop |-> FALSE]

idle == [pc |-> "off"]

InitWith(wires, tails, seps, m) ==
    /\ wire \in wires
    /\ tail \in tails
    /\ sep \in seps
    /\ (Len(wire) < 2 => sep = <<>>)
    /\ input = Render(wire, sep) \o tail
    /\ failAt \in FailPoints(input)
    /\ StopOnError \in BOOLEAN
    /\ mode = m
    /\ cancelled = FALSE
    /\ closed = {}
    /\ lx = lexerInit
    /\ pr = parserInit
    /\ outMsgs = <<>>
    /\ outErrs = <<>>
    /\ panicked = FALSE
    /\ pattern = <<>>
    /\ compiled = [state |-> "none"]
    /\ result = [op |-> "none"]
    /\ member = [kind |-> "none"]

\* ctx is cancelled by the caller.
Cancel ==
    /\ ~cancelled
    /\ ~panicked
    /\ cancelled' = TRUE
    /\ UNCHANGED <<conf, closed, lx, pr, fw, ef, cl, cv, outMsgs, outErrs, panicked>>

\* The state function l.state, one step: lexMeta as a whole (up to its send),
\* lexText one iteration of its loop.
callState(l, in, fail) ==
    IF stateFn(l.state).kind = "text"
    THEN lexText(l, stateFn(l.state).typ, stateFn(l.state).next, in, fail)
    ELSE lexMeta(l, stateFn(l.state).typ, stateFn(l.state).next)

\* lexer.run, the default case of the select: state = state().
LexRun ==
    /\ lx.pc = "run"
    /\ ~cancelled
    /\ ~panicked
    /\ lx' = callState(lx, input, failAt)
    /\ UNCHANGED <<conf, cancelled, closed, pr, fw, ef, cl, cv, outMsgs, outErrs, panicked>>

\* lexer.lexText: the next iteration of its loop.
LexText ==
    /\ lx.pc = "text"
    /\ ~panicked
    /\ lx' = callState(lx, input, failAt)
    /\ UNCHANGED <<conf, cancelled, closed, pr, fw, ef, cl, cv, outMsgs, outErrs, panicked>>

\* lexer.run, the case <-l.ctx.Done(): the body is empty, so the loop goes
\* round again and takes the same case, for ever.  spins counts the rounds
\* modulo MaxSpins.
LexDone ==
    /\ lx.pc = "run"
    /\ cancelled
    /\ ~panicked
    /\ lx' = [lx EXCEPT !.spins = (lx.spins + 1) % MaxSpins]
    /\ UNCHANGED <<conf, cancelled, closed, pr, fw, ef, cl, cv, outMsgs, outErrs, panicked>>

\* The loop of parser.run receives item it: its locals and where it goes.
receiveItem(p, it, stopOnError) ==
    LET goes(r) ==
            [r.p EXCEPT !.msgs = r.msgs, !.errs = r.errs, !.stop = r.stop,
                        !.pc = IF r.msgs # <<>> THEN "sendMsg"
                               ELSE IF r.errs # <<>> THEN "sendErr"
                               ELSE IF r.stop THEN "closeMsgs"
                               ELSE "recv"]
    IN goes(parserItem(p, it, stopOnError))

\* lexer.emit / lexer.errorf: l.items <- i, received by the loop of parser.run.
LexEmit ==
    /\ lx.pc = "emit"
    /\ pr.pc = "recv"
    /\ ~panicked
    /\ pr' = receiveItem(pr, Head(lx.pend), StopOnError)
    /\ lx' = [lx EXCEPT !.pend = Tail(lx.pend),
                        !.pc = IF Tail(lx.pend) # <<>> THEN "emit"
                               ELSE IF lx.state = "nil" THEN "close"
                               ELSE "run"]
    /\ UNCHANGED <<conf, cancelled, closed, fw, ef, cl, cv, outMsgs, outErrs, panicked>>

\* lexer.run: close(l.items).
LexClose ==
    /\ lx.pc = "close"
    /\ ~panicked
    /\ lx' = [lx EXCEPT !.pc = "done"]
    /\ closed' = closed \cup {"items"}
    /\ UNCHANGED <<conf, cancelled, pr, fw, ef, cl, cv, outMsgs, outErrs, panicked>>

\* parser.run leaves its loop at itemEOF or, with StopOnError, at itemError.
\* The lexer closes l.items only after it has sent itemEOF, so the range over
\* p.lexerItems never ends by the channel being closed: no step models it.
RangeNeverEndsByClose == pr.pc = "recv" => "items" \notin closed

\* Where parser.run goes after a send.
parserAfterSend(p) ==
    IF p.stop THEN "closeMsgs" ELSE "recv"

\* parser.run: close(p.messages).
ParserCloseMessages ==
    /\ pr.pc = "closeMsgs"
    /\ ~panicked
    /\ pr' = [pr EXCEPT !.pc = "closeErrs"]
    /\ closed' = closed \cup {"messages"}
    /\ UNCHANGED <<conf, cancelled, lx, fw, ef, cl, cv, outMsgs, outErrs, panicked>>

\* parser.run: close(p.errors).
ParserCloseErrors ==
    /\ pr.pc = "closeErrs"
    /\ ~panicked
    /\ pr' = [pr EXCEPT !.pc = "done"]
    /\ closed' = closed \cup {"errors"}
    /\ UNCHANGED <<conf, cancelled, lx, fw, ef, cl, cv, outMsgs, outErrs, panicked>>

\* A caller of message.Parse that ranges over the message channel and
\* appends what it receives (collectAllMessagesAndErrors of the tests).
ParseConsumeMessage ==
    /\ mode = "Parse"
    /\ pr.pc = "sendMsg"
    /\ outMsgs' = Append(outMsgs, Head(pr.msgs))
    /\ pr' = [pr EXCEPT !.msgs = <<>>, !.pc = parserAfterSend(pr)]
    /\ UNCHANGED <<conf, cancelled, closed, lx, fw, ef, cl, cv, outErrs, panicked>>

\* The same caller, ranging over the error channel.
ParseConsumeError ==
    /\ mode = "Parse"
    /\ pr.pc = "sendErr"
    /\ outErrs' = Append(outErrs, Head(pr.errs))
    /\ pr' = [pr EXCEPT !.errs = <<>>, !.pc = parserAfterSend(pr)]
    /\ UNCHANGED <<conf, cancelled, closed, lx, fw, ef, cl, cv, outMsgs, panicked>>

LexerNext == LexRun \/ LexText \/ LexDone \/ LexEmit \/ LexClose

ParserNext == ParserCloseMessages \/ ParserCloseErrors

(***************************************************************************)
(* message.Parse with a caller that receives from both channels.           *)
(***************************************************************************)
InitParse ==
    /\ InitWith(SeqsUpTo(PlainPieces, MaxBlocks) \cup {PlainFull}, Tails, Seps, "Parse")
    /\ Lax = FALSE /\ SkipValidation = FALSE
    /\ fw = idle /\ ef = idle /\ cl = idle /\ cv = idle

NextParse ==
    \/ Cancel
    \/ LexRun
    \/ LexText
    \/ LexDone
    \/ LexEmit
    \/ LexClose
    \/ ParserCloseMessages
    \/ ParserCloseErrors
    \/ ParseConsumeMessage
    \/ ParseConsumeError

SpecParse == InitParse /\ [][NextParse]_vars

\* The scheduler runs every goroutine that can take a step; the caller keeps
\* receiving.  Nothing obliges the caller to cancel the context.
InitParseLive ==
    /\ InitWith(SeqsUpTo(LivePieces, MaxLiveBlocks), Tails, {<<>>}, "Parse")
    /\ Lax = FALSE /\ SkipValidation = FALSE
    /\ fw = idle /\ ef = idle /\ cl = idle /\ cv = idle

FairParse ==
    /\ InitParseLive
    /\ [][NextParse]_vars
    /\ WF_vars(LexerNext)
    /\ WF_vars(ParserNext)
    /\ WF_vars(ParseConsumeMessage)
    /\ WF_vars(ParseConsumeError)

(***************************************************************************)
(* ParseMTx: a goroutine forwards the messages of message.Parse through    *)
(* messageToMTx, a second one forwards its errors, a third one closes the  *)
(* two channels when both are done.  The caller receives from both         *)
(* channels, as the two goroutines of ParseAllMTx do.                      *)
(***************************************************************************)
\* seen is a history field: for each message received so far, the number of
\* errors messageToMTx returned.
forwarderInit == [pc |-> "recv", errs |-> <<>>, mtx |-> <<>>, seen |-> <<>>]

errorForwarderInit == [pc |-> "recv", errs |-> <<>>]

closerInit == [pc |-> "wait"]

\* A caller that puts what it receives in front of its slice.
appendMTx_prepend(list, m) == <<m>> \o list

\* ParseAllMTx: genericMessages = append(genericMessages, genericMessage)
appendMTx(list, m) == Append(list, m)

\* ParseAllMTx: parseErrors = append(parseErrors, err)
appendError(list, e) == Append(list, e)

\* The body of the loop over msgs up to its first send, r being what
\* messageToMTx returned.
forward(f, r) ==
    IF r.panic THEN [f EXCEPT !.pc = "panic"]
    ELSE IF r.errors # <<>>
    THEN [f EXCEPT !.pc = "sendErr", !.errs = r.errors,
                   !.seen = Append(f.seen, Len(r.errors))]
    ELSE [f EXCEPT !.pc = "sendMtx", !.mtx = <<r.mtx>>, !.seen = Append(f.seen, 0)]

\* for msg := range msgs: a message is received and messageToMTx is called.
\* A panic of messageToMTx ends the process.
FwdReceive ==
    /\ fw.pc = "recv"
    /\ pr.pc = "sendMsg"
    /\ ~panicked
    /\ fw' = forward(fw, messageToMTx(Head(pr.msgs)))
    /\ panicked' = (fw'.pc = "panic")
    /\ pr' = [pr EXCEPT !.msgs = <<>>, !.pc = parserAfterSend(pr)]
    /\ UNCHANGED <<conf, cancelled, closed, lx, ef, cl, cv, outMsgs, outErrs>>

\* The range over msgs ends: wg.Done().
FwdClosed ==
    /\ fw.pc = "recv"
    /\ "messages" \in closed
    /\ ~panicked
    /\ fw' = [fw EXCEPT !.pc = "done"]
    /\ UNCHANGED <<conf, cancelled, closed, lx, pr, ef, cl, cv, outMsgs, outErrs, panicked>>

\* errCh <- err, for the next error of the message; the caller receives it.
FwdSendError ==
    /\ fw.pc = "sendErr"
    /\ ~panicked
    /\ outErrs' = appendError(outErrs, Head(fw.errs))
    /\ fw' = [fw EXCEPT !.errs = Tail(fw.errs),
                        !.pc = IF Tail(fw.errs) # <<>> THEN "sendErr" ELSE "recv"]
    /\ UNCHANGED <<conf, cancelled, closed, lx, pr, ef, cl, cv, outMsgs, panicked>>

\* mtxCh <- mtx, received by the caller of ParseMTx.
FwdSendMTx ==
    /\ mode = "ParseMTx"
    /\ fw.pc = "sendMtx"
    /\ ~panicked
    /\ outMsgs' = appendMTx(outMsgs, Head(fw.mtx))
    /\ fw' = [fw EXCEPT !.mtx = <<>>, !.pc = "recv"]
    /\ UNCHANGED <<conf, cancelled, closed, lx, pr, ef, cl, cv, outErrs, panicked>>

\* for err := range errs: an error of message.Parse is received.
ErrFwdReceive ==
    /\ ef.pc = "recv"
    /\ pr.pc = "sendErr"
    /\ ~panicked
    /\ ef' = [ef EXCEPT !.pc = "send",
                        !.errs = <<NewError(Head(pr.errs).Err, Head(pr.errs).Line, 0)>>]
    /\ pr' = [pr EXCEPT !.errs = <<>>, !.pc = parserAfterSend(pr)]
    /\ UNCHANGED <<conf, cancelled, closed, lx, fw, cl, cv, outMsgs, outErrs, panicked>>

\* The range over errs ends: wg.Done().
ErrFwdClosed ==
    /\ ef.pc = "recv"
    /\ "errors" \in closed
    /\ ~panicked
    /\ ef' = [ef EXCEPT !.pc = "done"]
    /\ UNCHANGED <<conf, cancelled, closed, lx, pr, fw, cl, cv, outMsgs, outErrs, panicked>>

\* errCh <- NewError(err.Err, err.Line); the caller receives it.
ErrFwdSend ==
    /\ ef.pc = "send"
    /\ ~panicked
    /\ outErrs' = appendError(outErrs, Head(ef.errs))
    /\ ef' = [ef EXCEPT !.errs = <<>>, !.pc = "recv"]
    /\ UNCHANGED <<conf, cancelled, closed, lx, pr, fw, cl, cv, outMsgs, panicked>>

\* wg.Wait() returns; close(mtxCh).
CloserCloseMtx ==
    /\ cl.pc = "wait"
    /\ fw.pc = "done"
    /\ ef.pc = "done"
    /\ ~panicked
    /\ cl' = [cl EXCEPT !.pc = "closeErr"]
    /\ closed' = closed \cup {"mtxCh"}
    /\ UNCHANGED <<conf, cancelled, lx, pr, fw, ef, cv, outMsgs, outErrs, panicked>>

\* close(errCh)
CloserCloseErr ==
    /\ cl.pc = "closeErr"
    /\ ~panicked
    /\ cl' = [cl EXCEPT !.pc = "done"]
    /\ closed' = closed \cup {"errCh"}
    /\ UNCHANGED <<conf, cancelled, lx, pr, fw, ef, cv, outMsgs, outErrs, panicked>>

ForwarderNext == FwdReceive \/ FwdClosed \/ FwdSendError \/ FwdSendMTx

ErrorForwarderNext == ErrFwdReceive \/ ErrFwdClosed \/ ErrFwdSend

CloserNext == CloserCloseMtx \/ CloserCloseErr

\* The messages of at most MaxMsgs messages, a newline between two blocks.
MaxMsgs == 2

MTxMsgs == {MsgInput, MsgOutput, MsgBadHeaders, MsgBadUsr, MsgNoBasic, MsgShortMRF}

Init ==
    /\ InitWith(MsgsUpTo(MTxMsgs, MaxMsgs), {<<>>}, {<<"\n">>}, "ParseMTx")
    /\ Lax = FALSE /\ SkipValidation = FALSE
    /\ fw = forwarderInit /\ ef = errorForwarderInit /\ cl = closerInit /\ cv = idle

Next ==
    \/ Cancel
    \/ LexRun
    \/ LexText
    \/ LexDone
    \/ LexEmit
    \/ LexClose
    \/ ParserCloseMessages
    \/ ParserCloseErrors
    \/ FwdReceive
    \/ FwdClosed
    \/ FwdSendError
    \/ FwdSendMTx
    \/ ErrFwdReceive
    \/ ErrFwdClosed
    \/ ErrFwdSend
    \/ CloserCloseMtx
    \/ CloserCloseErr

Spec == Init /\ [][Next]_vars

(***************************************************************************)
(* The patterns of the mt struct tags and their matching.                  *)
(***************************************************************************)
AlphaUpperRunes ==
    {"A", "B", "C", "D", "E", "F", "G", "H", "I", "J", "K", "L", "M", "N", "O", "P",
     "Q", "R", "S", "T", "U", "V", "W", "X", "Y", "Z"}

AlphaLowerRunes ==
    {"a", "b", "c", "d", "e", "f", "g", "h", "i", "j", "k", "l", "m", "n", "o", "p",
     "q", "r", "s", "t", "u", "v", "w", "x", "y", "z"}

SpecialRunes == {"/", "-", "?", ":", "(", ")", ".", ",", "'", "+", "{", "}", "\n", " "}

numbers(r) == r \in Digits
alphaLower(r) == r \in AlphaLowerRunes
alphaUpper(r) == r \in AlphaUpperRunes
alphaNumericUpper(r) == numbers(r) \/ alphaUpper(r)
floats(r) == numbers(r) \/ r = ","
special(r) == r \in SpecialRunes
any(r) == alphaNumericUpper(r) \/ alphaLower(r) \/ floats(r) \/ special(r)

\* charSets[key](r)
charSets(key, r) ==
    CASE key = "n" -> numbers(r)
      [] key = "a" -> alphaUpper(r)
      [] key = "c" -> alphaNumericUpper(r)
      [] key = "x" -> any(r)
      [] key = "d" -> floats(r)

\* The nodes of a compiled pattern.
Literal(chars) == [kind |-> "Literal", Chars |-> chars]
Optional(p) == [kind |-> "Optional", Pattern |-> p]
CharGroup(key, count, strict) ==
    [kind |-> "CharGroup", charSetKey |-> key, Count |-> count, CountStrict |-> strict]
Pattern(nodes) == [kind |-> "Pattern", Nodes |-> nodes]
OrPattern(left, right) == [kind |-> "OrPattern", Left |-> left, Right |-> right]
\* InRange of a LinePattern is line >= from /\ line < end.
LinePattern(from, end, p) == [kind |-> "LinePattern", from |-> from, end |-> end, Pattern |-> p]

\* The 1-based index of the first c in s, or 0.
RECURSIVE IndexOf(_, _, _)
IndexOf(s, c, i) ==
    IF i > Len(s) THEN 0 ELSE IF s[i] = c THEN i ELSE IndexOf(s, c, i + 1)

\* strings.Split(s, "\n")
RECURSIVE SplitLines(_)
SplitLines(s) ==
    LET cut(nl) ==
            IF nl = 0 THEN <<s>>
            ELSE <<SubSeq(s, 1, nl - 1)>> \o SplitLines(SubSeq(s, nl + 1, Len(s)))
    IN Once(cut, IndexOf(s, "\n", 1))

\* What ValidatePartial returns: the rest of the str and the error (FALSE
\* for nil); lines are the numbers of the "line %d: " parts of the error's
\* message, in the order of the message.
Partial(rest, err) == [rest |-> rest, err |-> err, lines |-> <<>>]

\* Literal.ValidatePartial
LiteralValidatePartial(l, str) ==
    IF HasPrefix(str, l.Chars)
    THEN Partial(SubSeq(str, Len(l.Chars) + 1, Len(str)), FALSE)
    ELSE Partial(str, TRUE)

\* The first loop of countAndStripFloats, at the rune i of the str with
\* before digits counted: the digits up to the comma, at most cg.Count.
RECURSIVE BeforeDecimalLoop(_, _, _, _)
BeforeDecimalLoop(str, i, before, count) ==
    IF i > Len(str) \/ before = count
    THEN [ok |-> TRUE, charCount |-> i - 1, before |-> before]
    ELSE IF str[i] = "," THEN [ok |-> TRUE, charCount |-> i, before |-> before]
    ELSE IF numbers(str[i]) THEN BeforeDecimalLoop(str, i + 1, before + 1, count)
    ELSE [ok |-> FALSE, charCount |-> 0, before |-> 0]

\* The second loop: the digits after the comma; a rune that is no digit is
\* counted as consumed and ends the loop.
RECURSIVE AfterDecimalLoop(_, _, _, _, _)
AfterDecimalLoop(str, i, before, after, count) ==
    IF i > Len(str) \/ before + after = count
    THEN [charCount |-> i - 1, after |-> after]
    ELSE IF numbers(str[i]) THEN AfterDecimalLoop(str, i + 1, before, after + 1, count)
    ELSE [charCount |-> i, after |-> after]

\* CharGroup.countAndStripFloats
countAndStripFloats(cg, str) ==
    LET second(b) ==
            LET last(a) ==
                    IF a.after = 0 THEN [count |-> 0, rest |-> str]
                    ELSE [count |-> b.before + a.after,
                          rest |-> SubSeq(str, a.charCount + 1, Len(str))]
            IN Once(last, AfterDecimalLoop(str, b.charCount + 1, b.before, 0, cg.Count))
        first(b) == IF ~b.ok THEN [count |-> 0, rest |-> str] ELSE second(b)
    IN Once(first, BeforeDecimalLoop(str, 1, 0, cg.Count))

\* The loop of countAndStripChars for the other character sets.
RECURSIVE CountChars(_, _, _)
CountChars(cg, str, count) ==
    IF count < Len(str) /\ count # cg.Count /\ charSets(cg.charSetKey, str[count + 1])
    THEN CountChars(cg, str, count + 1)
    ELSE count

\* CharGroup.countAndStripChars
countAndStripChars(cg, str) ==
    IF cg.charSetKey = "d" THEN countAndStripFloats(cg, str)
    ELSE LET stripped(count) ==
                 [count |-> count, rest |-> SubSeq(str, count + 1, Len(str))]
         IN Once(stripped, CountChars(cg, str, 0))

\* CharGroup.ValidatePartial without the check of a strict count.
CharGroupValidatePartial_neverStrict(cg, str) ==
    LET checked(c) == Partial(c.rest, FALSE)
    IN Once(checked, countAndStripChars(cg, str))

\* CharGroup.ValidatePartial
CharGroupValidatePartial(cg, str) ==
    LET checked(c) == Partial(c.rest, c.count < cg.Count /\ cg.CountStrict)
    IN Once(checked, countAndStripChars(cg, str))

\* What OrPattern.ValidatePartial makes of the results of its two sides.
orResult(str, left, right) ==
    IF ~left.err /\ left.rest = <<>> THEN Partial(left.rest, FALSE)
    ELSE IF ~left.err /\ right.err THEN Partial(left.rest, FALSE)
    ELSE IF left.err /\ ~right.err THEN Partial(right.rest, FALSE)
    ELSE IF ~left.err /\ ~right.err /\ Len(left.rest) < Len(right.rest)
    THEN Partial(left.rest, FALSE)
    ELSE IF ~left.err /\ ~right.err /\ Len(left.rest) > Len(right.rest)
    THEN Partial(right.rest, FALSE)
    ELSE [rest |-> str, err |-> TRUE, lines |-> left.lines \o right.lines]

\* ValidatePartial of the node v; the nodes of a Pattern are matched one
\* after the other, the first error ends the match.
RECURSIVE ValidatePartial(_, _, _)
RECURSIVE PatternValidatePartial(_, _, _)
RECURSIVE LinePatternLoop(_, _, _, _, _)
PatternValidatePartial(nodes, str, currLine) ==
    IF nodes = <<>> THEN Partial(str, FALSE)
    ELSE LET then(r) ==
                 IF r.err THEN r ELSE PatternValidatePartial(Tail(nodes), r.rest, currLine)
         IN Once(then, ValidatePartial(Head(nodes), str, currLine))

\* The loop of LinePattern.ValidatePartial at the line i of lines, the
\* lines of the str it was called with: a line in range has to be matched
\* whole by the pattern, and is then cut off the str with its newline.
LinePatternLoop(lp, lines, i, str, currLine) ==
    IF i > Len(lines) \/ ~(currLine >= lp.from /\ currLine < lp.end)
    THEN Partial(str, FALSE)
    ELSE LET line(r) ==
                 IF r.err THEN [rest |-> str, err |-> TRUE, lines |-> <<currLine>> \o r.lines]
                 ELSE IF r.rest # <<>>
                 THEN [rest |-> str, err |-> TRUE, lines |-> <<currLine>>]
                 ELSE LinePatternLoop(lp, lines, i + 1,
                                      IF Len(str) > Len(lines[i]) + 1
                                      THEN SubSeq(str, Len(lines[i]) + 2, Len(str))
                                      ELSE <<>>,
                                      currLine + 1)
         IN Once(line, ValidatePartial(lp.Pattern, lines[i], currLine))

ValidatePartial(v, str, currLine) ==
    CASE v.kind = "Literal" -> LiteralValidatePartial(v, str)
      [] v.kind = "Optional" ->
            LET opt(r) == IF r.err THEN Partial(str, FALSE) ELSE Partial(r.rest, FALSE)
            IN Once(opt, ValidatePartial(v.Pattern, str, currLine))
      [] v.kind = "CharGroup" -> CharGroupValidatePartial(v, str)
      [] v.kind = "Pattern" -> PatternValidatePartial(v.Nodes, str, currLine)
      [] v.kind = "LinePattern" -> LinePatternLoop(v, SplitLines(str), 1, str, currLine)
      [] v.kind = "OrPattern" ->
            orResult(str, ValidatePartial(v.Left, str, currLine),
                     ValidatePartial(v.Right, str, currLine))

\* Pattern.Validate with the error it returns: "nil", "input invalid" with
\* the line numbers of the wrapped error, or "incomplete match".
PatternValidateError(p, str) ==
    LET whole(r) ==
            IF r.err THEN [err |-> "input invalid", lines |-> r.lines]
            ELSE IF r.rest # <<>> THEN [err |-> "incomplete match", lines |-> <<>>]
            ELSE [err |-> "nil", lines |-> <<>>]
    IN Once(whole, PatternValidatePartial(p.Nodes, str, 1))

\* Pattern.Validate: nil (FALSE) when the nodes match and nothing is left.
PatternValidate(p, str) == PatternValidateError(p, str).err # "nil"

(***************************************************************************)
(* The pattern lexer (internal/pattern lexer): the tokens of a pattern     *)
(* text.  The position is the number of runes read, every rune is one byte *)
(* wide.                                                                   *)
(***************************************************************************)
optionalLeftMetaRune == "("
optionalRightMetaRune == ")"
lineCountMetaRune == "*"
charCountStrictMetaRune == "!"
orPatternMetaRune == "|"

charSetsKeys == {"n", "a", "c", "x", "d"}
isCharSetSpecifier(r) == r \in charSetsKeys

token(typ, val) == [typ |-> typ, val |-> val]

\* The rune next() returns at pos, "eof" at the end of the text.
runeAt(text, pos) == IF pos >= Len(text) THEN "eof" ELSE text[pos + 1]

\* The loop of lexNumber: the position of the first rune that is no digit.
RECURSIVE lexNumberLoop(_, _)
lexNumberLoop(text, pos) ==
    IF runeAt(text, pos) \in Digits THEN lexNumberLoop(text, pos + 1) ELSE pos

\* The loop of lexLiteral: the rune that ends the literal, the position
\* before it and the digits found right before it.
RECURSIVE lexLiteralLoop(_, _, _)
lexLiteralLoop(text, pos, digitsFound) ==
    LET r == runeAt(text, pos)
    IN IF \/ r \in {"eof", optionalLeftMetaRune, optionalRightMetaRune, orPatternMetaRune}
          \/ /\ digitsFound > 0
             /\ \/ r \in {charCountStrictMetaRune, lineCountMetaRune}
                \/ isCharSetSpecifier(r)
       THEN [r |-> r, pos |-> pos, digitsFound |-> digitsFound]
       ELSE lexLiteralLoop(text, pos + 1, IF r \in Digits THEN digitsFound + 1 ELSE 0)

\* lexer.run from the state function state on: the tokens emitted, with
\* start and pos as the state function finds them.
RECURSIVE lexFrom(_, _, _, _)
lexFrom(text, start, pos, state) ==
    CASE state = "lexToPattern" ->
            LET r == runeAt(text, pos)
            IN IF r = "eof" THEN <<token("tokenEOF", Slice(text, start, pos))>>
               ELSE IF r \in Digits THEN lexFrom(text, start, pos, "lexNumber")
               ELSE IF r = optionalLeftMetaRune
               THEN lexFrom(text, start, pos, "lexOptionalLeftMeta")
               ELSE IF r = optionalRightMetaRune
               THEN lexFrom(text, start, pos, "lexOptionalRightMeta")
               ELSE IF r = orPatternMetaRune
               THEN lexFrom(text, start, pos, "lexOrPatternMeta")
               ELSE lexFrom(text, start, pos, "lexLiteral")
      [] state = "lexNumber" ->
            LET end == lexNumberLoop(text, pos)
                r == runeAt(text, end)
            IN IF r = lineCountMetaRune
               THEN <<token("tokenLineCount", Slice(text, start, end))>>
                    \o lexFrom(text, end, end, "lexItemLineCountMeta")
               ELSE IF r = charCountStrictMetaRune
               THEN <<token("tokenCharCount", Slice(text, start, end))>>
                    \o lexFrom(text, end, end, "lexItemCharCountStrictMeta")
               ELSE IF isCharSetSpecifier(r)
               THEN <<token("tokenCharCount", Slice(text, start, end))>>
                    \o lexFrom(text, end, end, "lexCharSet")
               \* backup() after an eof steps back over the last digit
               ELSE lexFrom(text, start, IF r = "eof" THEN end - 1 ELSE end, "lexLiteral")
      [] state = "lexLiteral" ->
            LET l == lexLiteralLoop(text, pos, 0)
            IN IF l.r = "eof"
               THEN <<token("tokenLiteral", Slice(text, start, l.pos))>>
                    \o lexFrom(text, l.pos, l.pos, "lexToPattern")
               ELSE IF l.r = optionalLeftMetaRune
               THEN <<token("tokenLiteral", Slice(text, start, l.pos))>>
                    \o lexFrom(text, l.pos, l.pos, "lexOptionalLeftMeta")
               ELSE IF l.r = optionalRightMetaRune
               THEN <<token("tokenLiteral", Slice(text, start, l.pos))>>
                    \o lexFrom(text, l.pos, l.pos, "lexOptionalRightMeta")
               ELSE IF l.r = orPatternMetaRune
               THEN <<token("tokenLiteral", Slice(text, start, l.pos))>>
                    \o lexFrom(text, l.pos, l.pos, "lexOrPatternMeta")
               ELSE <<token("tokenLiteral", Slice(text, start, l.pos - l.digitsFound))>>
                    \o lexFrom(text, l.pos - l.digitsFound, l.pos - l.digitsFound,
                               "lexNumber")
      [] state = "lexCharSet" ->
            \* next() at the end of the text reads nothing
            LET end == IF pos >= Len(text) THEN pos ELSE pos + 1
            IN <<token("tokenCharSet", Slice(text, start, end))>>
               \o lexFrom(text, end, end, "lexToPattern")
      [] state = "lexItemCharCountStrictMeta" ->
            <<token("tokenCharCountStrictMeta", Slice(text, start, pos + 1))>>
            \o lexFrom(text, pos + 1, pos + 1, "lexCharSet")
      [] state = "lexItemLineCountMeta" ->
            <<token("tokenLineCountMeta", Slice(text, start, pos + 1))>>
            \o lexFrom(text, pos + 1, pos + 1, "lexToPattern")
      [] state = "lexOptionalLeftMeta" ->
            <<token("tokenOptionalLeftMeta", Slice(text, start, pos + 1))>>
            \o lexFrom(text, pos + 1, pos + 1, "lexToPattern")
      [] state = "lexOptionalRightMeta" ->
            <<token("tokenOptionalRightMeta", Slice(text, start, pos + 1))>>
            \o lexFrom(text, pos + 1, pos + 1, "lexToPattern")
      [] state = "lexOrPatternMeta" ->
            <<token("tokenOrPatternMeta", Slice(text, start, pos + 1))>>
            \o lexFrom(text, pos + 1, pos + 1, "lexToPattern")

\* lex: the tokens the lexer sends until it closes the channel.
lex(text) == lexFrom(text, 0, 0, "lexToPattern")

(***************************************************************************)
(* The pattern parser (internal/pattern parser): the tokens become an ast. *)
(* i is p.currTokenIndex, the current token is tokens[i + 1].  A loop in   *)
(* which no case of the switch takes the current token never ends: its     *)
(* outcome is the error "hang", which nothing after it can change.         *)
(***************************************************************************)
astLiteral(value) == [kind |-> "NodeKindLiteral", Value |-> value]
astOptional(node) == [kind |-> "NodeKindOptional", Node |-> node]
astCharGroup(count, strict, key) ==
    [kind |-> "NodeKindCharGroup", CharCount |-> count, CharCountStrict |-> strict,
     CharSetKey |-> key]
astLineCountExpression(lineCount, node) ==
    [kind |-> "NodeKindLineCountExpression", LineCount |-> lineCount, Node |-> node]
astOrExpression(left, right) ==
    [kind |-> "NodeKindOrExpression", Left |-> left, Right |-> right]
astPattern(nodes) == [kind |-> "NodeKindPattern", Nodes |-> nodes]

\* What a parse function leaves: its node, the index of the current token
\* and its error ("nil" for none).
parseResult(node, i, err) == [node |-> node, i |-> i, err |-> err]

\* parser.next and parser.backup
parserNext(tokens, i) == IF i < Len(tokens) - 1 THEN i + 1 ELSE i
parserBackup(i) == IF i > 0 THEN i - 1 ELSE i

RECURSIVE parseCharGroup(_, _, _)
RECURSIVE parseOptional(_, _, _, _, _)
RECURSIVE parseOr(_, _, _, _, _)
RECURSIVE parseLineCount(_, _, _, _, _)
RECURSIVE parsePattern(_, _, _, _)

\* parseCharGroup with node as far as the loop has filled it.
parseCharGroup(tokens, i, node) ==
    LET tok == tokens[i + 1]
    IN CASE tok.typ = "tokenCharCount" ->
                parseCharGroup(tokens, parserNext(tokens, i),
                               [node EXCEPT !.CharCount = DecimalValue(tok.val)])
         [] tok.typ = "tokenCharCountStrictMeta" ->
                parseCharGroup(tokens, parserNext(tokens, i),
                               [node EXCEPT !.CharCountStrict = TRUE])
         [] tok.typ = "tokenCharSet" ->
                parseResult([node EXCEPT !.CharSetKey = tok.val], i, "nil")
         [] OTHER -> parseResult(node, i, "hang")

\* The nodes a line count wraps into a single line count expression when it
\* comes after them.
wrapForLineCount(nodes, lineCountFound) ==
    IF ~lineCountFound /\ Len(nodes) > 0
    THEN <<astLineCountExpression(1, astPattern(nodes))>>
    ELSE nodes

\* parseOptional in its loop.
parseOptional(tokens, i, wrappedNodes, leftMetaFound, lineCountFound) ==
    LET tok == tokens[i + 1]
        append(r) ==
            IF r.err # "nil" THEN r
            ELSE parseOptional(tokens, parserNext(tokens, r.i),
                               Append(wrappedNodes, r.node), leftMetaFound, lineCountFound)
        appendLineCount(r) ==
            IF r.err # "nil" THEN r
            ELSE parseOptional(tokens, parserNext(tokens, r.i),
                               Append(wrapForLineCount(wrappedNodes, lineCountFound), r.node),
                               leftMetaFound, TRUE)
        replace(r) ==
            IF r.err # "nil" THEN r
            ELSE parseOptional(tokens, parserNext(tokens, r.i), <<r.node>>,
                               leftMetaFound, lineCountFound)
    IN CASE tok.typ = "tokenEOF" ->
                parseResult(astOptional(<<>>), i, "unclosed optional expression")
         [] tok.typ = "tokenOptionalLeftMeta" ->
                IF leftMetaFound
                THEN Once(append, parseOptional(tokens, i, <<>>, FALSE, FALSE))
                ELSE parseOptional(tokens, parserNext(tokens, i), wrappedNodes, TRUE,
                                   lineCountFound)
         [] tok.typ = "tokenOptionalRightMeta" ->
                parseResult(astOptional(astPattern(wrappedNodes)), i, "nil")
         [] tok.typ = "tokenLiteral" ->
                parseOptional(tokens, parserNext(tokens, i),
                              Append(wrappedNodes, astLiteral(tok.val)), leftMetaFound,
                              lineCountFound)
         [] tok.typ = "tokenCharCount" ->
                Once(append, parseCharGroup(tokens, i, astCharGroup(0, FALSE, <<>>)))
         [] tok.typ = "tokenLineCount" ->
                Once(appendLineCount, parseLineCount(tokens, i, <<>>, FALSE, 0))
         [] tok.typ = "tokenOrPatternMeta" ->
                Once(replace, parseOr(tokens, i, astPattern(wrappedNodes), <<>>, FALSE))
         [] OTHER -> parseResult(astOptional(<<>>), i, "hang")

\* parseOr in its loop.
parseOr(tokens, i, left, rightNodes, ownTokenFound) ==
    LET tok == tokens[i + 1]
        append(r) ==
            IF r.err # "nil" THEN r
            ELSE parseOr(tokens, parserNext(tokens, r.i), left, Append(rightNodes, r.node),
                         ownTokenFound)
        right(r) ==
            IF r.err # "nil" THEN r ELSE parseResult(astOrExpression(left, r.node), r.i, "nil")
    IN CASE tok.typ = "tokenOptionalRightMeta" ->
                parseResult(astOrExpression(left, astPattern(rightNodes)), parserBackup(i), "nil")
         [] tok.typ = "tokenEOF" ->
                parseResult(astOrExpression(left, astPattern(rightNodes)), i, "nil")
         [] tok.typ = "tokenOrPatternMeta" ->
                IF ownTokenFound
                THEN Once(right, parseOr(tokens, i, astPattern(rightNodes), <<>>, FALSE))
                ELSE parseOr(tokens, parserNext(tokens, i), left, rightNodes, TRUE)
         [] tok.typ = "tokenLineCount" ->
                IF Len(rightNodes) = 0
                THEN Once(right, parseLineCount(tokens, i, <<>>, FALSE, 0))
                ELSE parseResult(astOrExpression(left, astPattern(rightNodes)),
                            parserBackup(i), "nil")
         [] tok.typ = "tokenLiteral" ->
                parseOr(tokens, parserNext(tokens, i), left,
                        Append(rightNodes, astLiteral(tok.val)), ownTokenFound)
         [] tok.typ = "tokenOptionalLeftMeta" ->
                Once(append, parseOptional(tokens, i, <<>>, FALSE, FALSE))
         [] tok.typ = "tokenCharCount" ->
                Once(append, parseCharGroup(tokens, i, astCharGroup(0, FALSE, <<>>)))
         [] OTHER -> parseResult(astOrExpression(left, <<>>), i, "hang")

\* parseLineCount in its loop.
parseLineCount(tokens, i, wrappedNodes, countSet, lineCount) ==
    LET tok == tokens[i + 1]
        node == astLineCountExpression(lineCount, astPattern(wrappedNodes))
        append(r) ==
            IF r.err # "nil" THEN r
            ELSE parseLineCount(tokens, parserNext(tokens, r.i),
                                Append(wrappedNodes, r.node), countSet, lineCount)
        replace(r) ==
            IF r.err # "nil" THEN r
            ELSE parseLineCount(tokens, parserNext(tokens, r.i), <<r.node>>, countSet,
                                lineCount)
    IN CASE tok.typ = "tokenEOF" -> parseResult(node, i, "nil")
         [] tok.typ = "tokenLineCount" ->
                IF countSet THEN parseResult(node, parserBackup(i), "nil")
                ELSE parseLineCount(tokens, parserNext(tokens, i), wrappedNodes, TRUE,
                                    DecimalValue(tok.val))
         [] tok.typ = "tokenLineCountMeta" ->
                parseLineCount(tokens, parserNext(tokens, i), wrappedNodes, countSet,
                               lineCount)
         [] tok.typ = "tokenOptionalLeftMeta" ->
                Once(append, parseOptional(tokens, i, <<>>, FALSE, FALSE))
         [] tok.typ = "tokenCharCount" ->
                Once(append, parseCharGroup(tokens, i, astCharGroup(0, FALSE, <<>>)))
         [] tok.typ = "tokenOrPatternMeta" ->
                \* peek: the token after the or
                IF tokens[i + 2].typ = "tokenLineCount"
                THEN parseOr(tokens, i, node, <<>>, FALSE)
                ELSE Once(replace, parseOr(tokens, i, astPattern(wrappedNodes), <<>>, FALSE))
         [] tok.typ = "tokenOptionalRightMeta" -> parseResult(node, parserBackup(i), "nil")
         [] OTHER -> parseResult(node, i, "unexpected token")

\* parsePattern in its loop.
parsePattern(tokens, i, nodes, lineCountFound) ==
    LET tok == tokens[i + 1]
        append(r) ==
            IF r.err # "nil" THEN r
            ELSE parsePattern(tokens, parserNext(tokens, r.i), Append(nodes, r.node),
                              lineCountFound)
        appendLineCount(r) ==
            IF r.err # "nil" THEN r
            ELSE parsePattern(tokens, parserNext(tokens, r.i),
                              Append(wrapForLineCount(nodes, lineCountFound), r.node), TRUE)
        replace(r) ==
            IF r.err # "nil" THEN r
            ELSE parsePattern(tokens, parserNext(tokens, r.i), <<r.node>>, lineCountFound)
    IN CASE tok.typ = "tokenEOF" -> parseResult(astPattern(nodes), i, "nil")
         [] tok.typ = "tokenLiteral" ->
                parsePattern(tokens, parserNext(tokens, i),
                             Append(nodes, astLiteral(tok.val)), lineCountFound)
         [] tok.typ = "tokenOptionalLeftMeta" ->
                Once(append, parseOptional(tokens, i, <<>>, FALSE, FALSE))
         [] tok.typ = "tokenCharCount" ->
                Once(append, parseCharGroup(tokens, i, astCharGroup(0, FALSE, <<>>)))
         [] tok.typ = "tokenLineCount" ->
                Once(appendLineCount, parseLineCount(tokens, i, <<>>, FALSE, 0))
         [] tok.typ = "tokenOrPatternMeta" ->
                Once(replace, parseOr(tokens, i, astPattern(nodes), <<>>, FALSE))
         [] OTHER -> parseResult(astPattern(nodes), i, "hang")

\* parse: the ast of the tokens and the error.
parse(tokens) == parsePattern(tokens, 0, <<>>, FALSE)

(***************************************************************************)
(* The processor (internal/pattern processor): the ast becomes the nodes   *)
(* that validate.  The lines of a line pattern are fixed here.             *)
(***************************************************************************)
RECURSIVE astNodeToPartialValidator(_, _)
RECURSIVE astNodesToPartialValidators(_, _)
astNodesToPartialValidators(nodes, currLine) ==
    IF nodes = <<>> THEN <<>>
    ELSE <<astNodeToPartialValidator(Head(nodes), currLine)>>
         \o astNodesToPartialValidators(Tail(nodes), currLine)

astNodeToPartialValidator(node, currLine) ==
    CASE node.kind = "NodeKindLiteral" -> Literal(node.Value)
      [] node.kind = "NodeKindOptional" ->
            Optional(astNodeToPartialValidator(node.Node, currLine))
      [] node.kind = "NodeKindCharGroup" ->
            \* the key is the one rune of the token, or no rune at all
            CharGroup(IF node.CharSetKey = <<>> THEN "" ELSE node.CharSetKey[1],
                      node.CharCount, node.CharCountStrict)
      [] node.kind = "NodeKindLineCountExpression" ->
            LinePattern(currLine, currLine + node.LineCount,
                        astNodeToPartialValidator(node.Node, currLine + node.LineCount))
      [] node.kind = "NodeKindOrExpression" ->
            OrPattern(astNodeToPartialValidator(node.Left, currLine),
                      astNodeToPartialValidator(node.Right, currLine))
      [] OTHER -> Pattern(astNodesToPartialValidators(node.Nodes, currLine))

process(ast) == astNodeToPartialValidator(ast, 1)

\* pattern.Parse: the compiled pattern, or the error of the parser; in the
\* state "hang" the call never returns.
Parse(text) ==
    LET done(r) ==
            IF r.err = "hang" THEN [state |-> "hang"]
            ELSE IF r.err # "nil" THEN [state |-> "err", err |-> r.err]
            ELSE [state |-> "ok", err |-> "nil", Pattern |-> process(r.node)]
    IN Once(done, parse(lex(text)))

(***************************************************************************)
(* The pattern package on its own: a caller compiles a pattern text with   *)
(* pattern.Parse and validates an input with the pattern it got.           *)
(***************************************************************************)
MaxInputLen == 4
MaxPatternLen == 4
MaxCount == 3
MaxLineCount == 2
MaxCurrLine == 2

\* The sequences over S of at most n elements.
StringsUpTo(S, n) == UNION {[1..k -> S] : k \in 0..n}

\* The runes of the inputs: a digit, a letter, the comma and the newline.
InputRunes == {"1", "A", ",", "\n"}
PatternInputs == StringsUpTo(InputRunes, MaxInputLen)

\* The runes of the pattern texts that are enumerated whole.
PatternRunes == {"2", "*", "!", "a", "|", "(", ")"}
ShortPatternTexts == StringsUpTo(PatternRunes, MaxPatternLen)

DigitOf(n) == CHOOSE d \in Digits : DigitVal(d) = n

\* The text of a character group, as in "3!a" or "15d".
CharGroupText(count, strict, key) ==
    <<DigitOf(count)>> \o (IF strict THEN <<"!">> ELSE <<>>) \o <<key>>

CharGroupTexts ==
    {CharGroupText(c, st, k) : c \in 1..MaxCount, st \in BOOLEAN, k \in charSetsKeys}

\* The sides of the or patterns: groups of letters, and of letters and digits.
OrSideTexts == {CharGroupText(c, st, k) : c \in 1..2, st \in BOOLEAN, k \in {"a", "c"}}
OrTexts == {l \o <<"|">> \o r : l \in OrSideTexts, r \in OrSideTexts}

\* Line patterns such as "2*1!a", alone and after another node.
LineTexts ==
    {<<DigitOf(n), "*">> \o g : n \in 1..MaxLineCount, g \in CharGroupTexts}
FollowingLineTexts ==
    {g \o <<DigitOf(n), "*">> \o h :
        g \in {CharGroupText(1, TRUE, "a"), CharGroupText(2, FALSE, "x")},
        n \in 1..MaxLineCount,
        h \in {CharGroupText(1, TRUE, "n"), CharGroupText(1, TRUE, "a")}}
    \cup {<<DigitOf(n), "*">> \o CharGroupText(1, TRUE, "a")
          \o <<DigitOf(n), "*">> \o CharGroupText(1, TRUE, "n") : n \in 1..MaxLineCount}

PatternTexts == CharGroupTexts \cup OrTexts \cup LineTexts \cup FollowingLineTexts

InitPattern ==
    /\ \/ pattern \in PatternTexts /\ input \in PatternInputs
       \/ pattern \in ShortPatternTexts /\ input = <<>>
    /\ compiled = [state |-> "none"]
    /\ result = [op |-> "none"]
    /\ member = [kind |-> "none"]
    /\ wire = <<>> /\ tail = <<>> /\ sep = <<>> /\ failAt = 0
    /\ StopOnError = FALSE /\ Lax = FALSE /\ SkipValidation = FALSE
    /\ mode = "Pattern"
    /\ cancelled = FALSE /\ closed = {} /\ panicked = FALSE
    /\ lx = idle /\ pr = idle /\ fw = idle /\ ef = idle /\ cl = idle /\ cv = idle
    /\ outMsgs = <<>> /\ outErrs = <<>>

goroutines == <<cancelled, closed, lx, pr, fw, ef, cl, cv, outMsgs, outErrs, panicked>>
reader == <<wire, tail, sep, input, failAt, StopOnError, Lax, SkipValidation, mode, member>>

\* pattern.Parse(pattern)
PatternParse ==
    /\ mode = "Pattern"
    /\ compiled.state = "none"
    /\ \E r \in {Parse(pattern)} : compiled' = r
    /\ UNCHANGED <<reader, goroutines, pattern, result>>

\* p.Validate(input) on the compiled pattern
PatternValidateInput ==
    /\ mode = "Pattern"
    /\ compiled.state = "ok"
    /\ result.op = "none"
    /\ \E r \in {PatternValidateError(compiled.Pattern, input)} :
          result' = [op |-> "Validate", err |-> r.err, lines |-> r.lines]
    /\ UNCHANGED <<reader, goroutines, pattern, compiled>>

\* p.ValidatePartial(input, currLine) on the compiled pattern
PatternValidatePartialInput ==
    /\ mode = "Pattern"
    /\ compiled.state = "ok"
    /\ result.op = "none"
    /\ \E currLine \in 1..MaxCurrLine :
          \E r \in {ValidatePartial(compiled.Pattern, input, currLine)} :
              result' = [op |-> "ValidatePartial", currLine |-> currLine,
                         rest |-> r.rest, err |-> r.err, lines |-> r.lines]
    /\ UNCHANGED <<reader, goroutines, pattern, compiled>>

NextPattern == PatternParse \/ PatternValidateInput \/ PatternValidatePartialInput

SpecPattern == InitPattern /\ [][NextPattern]_vars

(***************************************************************************)
(* MT940: decoding the body into the struct (encoding/mt.UnmarshalMT) and  *)
(* validating the struct against the patterns of its tags.                 *)
(***************************************************************************)
MessageTypeMT940 == <<"9", "4", "0">>

\* The tags of the fields of the struct MT940.
MT940Tags ==
    {<<"2", "0">>, <<"2", "5">>, <<"2", "8", "C">>, <<"6", "0", "F">>, <<"6", "1">>,
     <<"8", "6">>}

\* The zero Balance and the zero MT940.  Base is the list of the one MTx
\* once it is assigned.  Amount holds the decimal text of the number.
NoBalance ==
    [Set |-> FALSE, Raw |-> <<>>, CreditDebit |-> <<"C">>, Date |-> NoTime,
     Currency |-> <<>>, Amount |-> <<"0">>]

emptyMT940 ==
    [Base |-> <<>>, Reference |-> <<>>, AccountIdentification |-> <<>>,
     StatementNumberSequenceNumber |-> <<>>, OpeningBalance |-> NoBalance,
     StatementLines |-> <<>>, AccountOwnerInformation |-> <<>>]

\* strings.ReplaceAll(s, ",", ".")
CommasToDots(s) == [i \in 1..Len(s) |-> IF s[i] = "," THEN "." ELSE s[i]]

\* strconv.ParseFloat on a text of digits with at most one point and at
\* least one digit (the texts of amounts the inputs hold are of that form or
\* hold a letter that no number has; signs, exponents, hexadecimal numbers,
\* "inf" and "nan", which ParseFloat reads too, are not among them).
ParseFloatOk(s) ==
    LET dot == IndexOf(s, ".", 1)
    IN IF dot = 0 THEN s # <<>> /\ IsDigits(s)
       ELSE /\ IsDigits(SubSeq(s, 1, dot - 1))
            /\ IsDigits(SubSeq(s, dot + 1, Len(s)))
            /\ Len(s) > 1

\* strconv.FormatFloat(f, 'f', 2, 32) with "." replaced by ",", f being the
\* number of the decimal text s: the whole part without leading zeros and
\* two decimals.  For a text with at most two decimals and at most seven
\* digits, which float32 holds exactly enough; longer texts are rounded by
\* strconv and are not among the inputs.
FormatAmount(s) ==
    LET dot == IndexOf(s, ".", 1)
        whole == StripLeadingZeros(IF dot = 0 THEN s ELSE SubSeq(s, 1, dot - 1))
        frac == IF dot = 0 THEN <<>> ELSE SubSeq(s, dot + 1, Len(s))
    IN (IF whole = <<>> THEN <<"0">> ELSE whole) \o <<",">>
       \o SubSeq(frac \o <<"0", "0">>, 1, 2)

\* creditDebitFromString
creditDebitFromString(str) ==
    IF str \in {<<"C">>, <<"D">>} THEN [v |-> str, err |-> <<>>]
    ELSE [v |-> <<"C">>, err |-> <<"credit/debit: invalid indicator">>]

\* Balance.UnmarshalMT on the zero Balance: the Balance as far as it was
\* filled, and the error.
BalanceUnmarshalMT(str) ==
    IF Len(str) < 11 \/ Len(str) > 25
    THEN [v |-> NoBalance, err |-> <<"balance: invalid str length">>]
    ELSE LET withCD(cd) ==
                 IF cd.err # <<>> THEN [v |-> NoBalance, err |-> cd.err]
                 ELSE LET b1 == [NoBalance EXCEPT !.CreditDebit = cd.v]
                          withDate(d) ==
                              IF d.err # <<>>
                              THEN [v |-> b1, err |-> <<"balance: invalid date">>]
                              ELSE IF ~ParseFloatOk(CommasToDots(Slice(str, 10, Len(str))))
                              THEN [v |-> [b1 EXCEPT !.Date = d.v,
                                                     !.Currency = Slice(str, 7, 10)],
                                    err |-> <<"balance: invalid amount">>]
                              ELSE [v |-> [Set |-> TRUE, Raw |-> str, CreditDebit |-> cd.v,
                                           Date |-> d.v, Currency |-> Slice(str, 7, 10),
                                           Amount |-> CommasToDots(Slice(str, 10, Len(str)))],
                                    err |-> <<>>]
                      IN Once(withDate, DateUnmarshalMT(Slice(str, 1, 7)))
         IN Once(withCD, creditDebitFromString(Slice(str, 0, 1)))

\* time.Parse(TimeFormatMonth, s) succeeds: month and day of the year 0, a
\* leap year.
ParsesMonth(s) ==
    /\ Len(s) = 4 /\ IsDigits(s)
    /\ Num2(s, 0) \in 1..12
    /\ Num2(s, 2) \in 1..DaysIn(Num2(s, 0), 0)

\* The number of leading runes of s that are digits or commas.
RECURSIVE AmountNrOfDigits(_)
AmountNrOfDigits(s) ==
    IF s # <<>> /\ floats(Head(s)) THEN 1 + AmountNrOfDigits(Tail(s)) ELSE 0

\* lines[0] of strings.Split(s, "\n")
FirstLine(s) ==
    LET nl == IndexOf(s, "\n", 1) IN IF nl = 0 THEN s ELSE SubSeq(s, 1, nl - 1)

\* StatementLine.UnmarshalMT, the way out: "ok", "err", or "panic" when it
\* slices or indexes past the end of the first line.  unmarshalSlice drops
\* the element, so that the fields it was given are not kept here.
StatementLineAfterFunds(line1) ==
    IF AmountNrOfDigits(line1) = Len(line1) THEN "panic"
    ELSE IF Len(line1) - AmountNrOfDigits(line1) < 4 THEN "panic"
    ELSE "ok"

StatementLineFunds(line1) ==
    IF HasPrefix(line1, <<"R", "C">>) \/ HasPrefix(line1, <<"R", "D">>)
    THEN StatementLineAfterFunds(Slice(line1, 2, Len(line1)))
    ELSE IF HasPrefix(line1, <<"C">>) \/ HasPrefix(line1, <<"D">>)
    THEN StatementLineAfterFunds(Slice(line1, 1, Len(line1)))
    ELSE "err"

StatementLineUnmarshalMT(str) ==
    LET line1 == FirstLine(str)
        afterDate == Slice(line1, 6, Len(line1))
    IN IF Len(line1) < 6 THEN "panic"
       ELSE IF ~ParsesDate(Slice(line1, 0, 6)) THEN "err"
       ELSE IF ~HasPrefix(afterDate, <<"C">>) /\ ~HasPrefix(afterDate, <<"D">>)
       THEN IF Len(afterDate) < 4 THEN "panic"
            ELSE IF ~ParsesMonth(Slice(afterDate, 0, 4)) THEN "err"
            ELSE StatementLineFunds(Slice(afterDate, 4, Len(afterDate)))
       ELSE StatementLineFunds(afterDate)

\* The values of the tag in the body (nil when the tag is absent).
FieldValues(fields, tag) == IF tag \in DOMAIN fields THEN fields[tag] ELSE <<>>

\* The ways out of unmarshalSlice over the values of a slice of
\* StatementLine: the first value that does not decode ends the loop.
RECURSIVE unmarshalStatementLines(_)
unmarshalStatementLines(vals) ==
    IF vals = <<>> THEN "ok"
    ELSE LET one(r) == IF r = "ok" THEN unmarshalStatementLines(Tail(vals)) ELSE r
         IN Once(one, StatementLineUnmarshalMT(Head(vals)))

\* unmarshalItem for a field of kind string: the field and the error.
unmarshalStringItem(vals, old) ==
    IF Len(vals) > 1 THEN [v |-> old, err |-> <<"multiple values but field is not a slice">>]
    ELSE [v |-> vals[1], err |-> <<>>]

\* unmarshalItem for the field OpeningBalance, whose address is an
\* MTUnmarshaler.
unmarshalBalanceItem(vals, old) ==
    IF Len(vals) > 1 THEN [v |-> old, err |-> <<"multiple values but field is not a slice">>]
    ELSE BalanceUnmarshalMT(vals[1])

\* UnmarshalMT(mtx.Body, &mt940): the fields of the struct in their order;
\* a tag that is absent or has no value is skipped, the first error ends
\* the decoding.  unmarshalSlice appends to a copy of the slice header
\* (reflect.Append, whose result it drops): StatementLines and
\* AccountOwnerInformation stay empty; no value of tag 86 fails to decode.
UnmarshalMT(fields, mt940) ==
    LET f20 == FieldValues(fields, <<"2", "0">>)
        f25 == FieldValues(fields, <<"2", "5">>)
        f28C == FieldValues(fields, <<"2", "8", "C">>)
        f60F == FieldValues(fields, <<"6", "0", "F">>)
        f61 == FieldValues(fields, <<"6", "1">>)
        failed(v, err) == [v |-> v, err |-> <<"could not unmarshal">> \o err, panic |-> FALSE]
        lines(v) ==
            LET out(r) ==
                    IF r = "panic" THEN [v |-> v, err |-> <<>>, panic |-> TRUE]
                    ELSE IF r = "err" THEN failed(v, <<"decoding failed for slice item">>)
                    ELSE [v |-> v, err |-> <<>>, panic |-> FALSE]
            IN Once(out, unmarshalStatementLines(f61))
        balance(v) ==
            IF f60F = <<>> THEN lines(v)
            ELSE LET set(r) ==
                         IF r.err # <<>> THEN failed([v EXCEPT !.OpeningBalance = r.v], r.err)
                         ELSE lines([v EXCEPT !.OpeningBalance = r.v])
                 IN Once(set, unmarshalBalanceItem(f60F, v.OpeningBalance))
        number(v) ==
            IF f28C = <<>> THEN balance(v)
            ELSE LET set(r) ==
                         IF r.err # <<>> THEN failed(v, r.err)
                         ELSE balance([v EXCEPT !.StatementNumberSequenceNumber = r.v])
                 IN Once(set, unmarshalStringItem(f28C, v.StatementNumberSequenceNumber))
        account(v) ==
            IF f25 = <<>> THEN number(v)
            ELSE LET set(r) ==
                         IF r.err # <<>> THEN failed(v, r.err)
                         ELSE number([v EXCEPT !.AccountIdentification = r.v])
                 IN Once(set, unmarshalStringItem(f25, v.AccountIdentification))
    IN IF f20 = <<>> THEN account(mt940)
       ELSE LET set(r) ==
                    IF r.err # <<>> THEN failed(mt940, r.err)
                    ELSE account([mt940 EXCEPT !.Reference = r.v])
            IN Once(set, unmarshalStringItem(f20, mt940.Reference))

\* A validation item of the validator: createItem on an mt tag.
validationItem(field, label, mandatory, pat) ==
    [field |-> field, label |-> label, mandatory |-> mandatory, pattern |-> pat]

\* pattern.Parse of the patterns of the tags of MT940, of Balance and of
\* StatementLine.
Pattern16x == Pattern(<<CharGroup("x", 16, FALSE)>>)

PatternAccount ==
    Pattern(<<OrPattern(Pattern(<<CharGroup("c", 2, TRUE), CharGroup("n", 26, TRUE)>>),
                        Pattern(<<CharGroup("c", 8, TRUE), Literal(<<"/">>),
                                  CharGroup("n", 12, TRUE)>>))>>)

PatternStatementNumber ==
    Pattern(<<CharGroup("n", 5, TRUE),
              Optional(Pattern(<<Literal(<<"/">>), CharGroup("n", 3, TRUE)>>))>>)

Pattern6x65x == Pattern(<<LinePattern(1, 7, Pattern(<<CharGroup("x", 65, FALSE)>>))>>)

Pattern1a == Pattern(<<CharGroup("a", 1, TRUE)>>)

Pattern6n == Pattern(<<CharGroup("n", 6, TRUE)>>)

Pattern3a == Pattern(<<CharGroup("a", 3, TRUE)>>)

Pattern15d == Pattern(<<CharGroup("d", 15, FALSE)>>)

ItemReference == validationItem("Reference", <<"2", "0">>, TRUE, Pattern16x)

ItemAccountIdentification ==
    validationItem("AccountIdentification", <<"2", "5">>, TRUE, PatternAccount)

ItemStatementNumberSequenceNumber ==
    validationItem("StatementNumberSequenceNumber", <<"2", "8", "C">>, TRUE,
                   PatternStatementNumber)

ItemOpeningBalance == validationItem("OpeningBalance", <<"6", "0", "F">>, TRUE, Pattern(<<>>))

ItemAccountOwnerInformation ==
    validationItem("AccountOwnerInformation", <<"8", "6">>, FALSE, Pattern6x65x)

ItemCreditDebit == validationItem("CreditDebit", <<>>, TRUE, Pattern1a)

ItemDate == validationItem("Date", <<>>, TRUE, Pattern6n)

ItemCurrency == validationItem("Currency", <<>>, TRUE, Pattern3a)

ItemAmount == validationItem("Amount", <<>>, TRUE, Pattern15d)

\* validateValue on the text valueToString makes of the field: the error
\* (empty for nil).
validateValue(it, val) ==
    IF (val = <<>> \/ val = <<"0">>) /\ it.mandatory THEN <<"empty mandatory field">>
    ELSE IF val = <<>> THEN <<>>
    ELSE IF PatternValidate(it.pattern, val) THEN <<"pattern validation failed">>
    ELSE <<>>

\* The entry validateStruct and validateSlice add to their errors for the
\* error of a member, none for nil.
validationError(it, err) ==
    IF err = <<>> THEN <<>> ELSE <<[field |-> it.field, label |-> it.label, err |-> err]>>

\* validateStruct on the items of the dive into Balance.
validateBalance(b) ==
    validationError(ItemCreditDebit, validateValue(ItemCreditDebit, b.CreditDebit))
    \o validationError(ItemDate, validateValue(ItemDate, b.Date.Raw))
    \o validationError(ItemCurrency, validateValue(ItemCurrency, b.Currency))
    \o validationError(ItemAmount, validateValue(ItemAmount, FormatAmount(b.Amount)))

\* validateSlice over a slice of strings.
validateSlice(it, vals) ==
    Concat([i \in 1..Len(vals) |-> validationError(it, validateValue(it, vals[i]))])

\* validator.Validate for the struct MT940: the errors of its fields in
\* their order (empty for nil).  StatementLines is the empty slice (see
\* UnmarshalMT), for which validateSlice has no error.
Validate(mt940) ==
    validationError(ItemReference, validateValue(ItemReference, mt940.Reference))
    \o validationError(ItemAccountIdentification,
                       validateValue(ItemAccountIdentification, mt940.AccountIdentification))
    \o validationError(ItemStatementNumberSequenceNumber,
                       validateValue(ItemStatementNumberSequenceNumber,
                                     mt940.StatementNumberSequenceNumber))
    \o validationError(ItemOpeningBalance, validateBalance(mt940.OpeningBalance))
    \o validationError(ItemAccountOwnerInformation,
                       validateSlice(ItemAccountOwnerInformation, mt940.AccountOwnerInformation))

\* MTxToMT940: the MT940, the error (empty for nil) and whether the
\* decoding panics.
MTxToMT940(mtx) ==
    IF Type(mtx) # MessageTypeMT940
    THEN [v |-> emptyMT940, err |-> <<"expected message type">>, panic |-> FALSE]
    ELSE LET validated(r) ==
                 IF r.panic \/ r.err # <<>> THEN r
                 ELSE IF Validate(r.v) # <<>>
                 THEN [r EXCEPT !.err = <<"validation failed">>]
                 ELSE r
         IN Once(validated, UnmarshalMT(mtx.Body, [emptyMT940 EXCEPT !.Base = <<mtx>>]))

\* ValidateMT940: the error (empty for nil).
ValidateMT940(mt940) == IF Validate(mt940) # <<>> THEN <<"validation failed">> ELSE <<>>

(***************************************************************************)
(* The validator on one member: a schema item and a value of one of the    *)
(* kinds reflect tells apart.                                              *)
(***************************************************************************)
MaxValueLen == 2
MaxInt == 2

\* strconv.FormatInt(n, 10)
RECURSIVE FormatInt(_)
FormatInt(n) ==
    IF n < 0 THEN <<"-">> \o FormatInt(0 - n)
    ELSE IF n < 10 THEN <<DigitOf(n)>>
    ELSE FormatInt(n \div 10) \o <<DigitOf(n % 10)>>

\* valueToString: the text of a value.  A float is held as its decimal
\* text; a kind no case names has the empty text.
valueToString(rv) ==
    CASE rv.kind = "RawStringer" -> rv.raw
      [] rv.kind = "Int" -> FormatInt(rv.n)
      [] rv.kind = "Float" -> FormatAmount(rv.s)
      [] rv.kind = "String" -> rv.s
      [] OTHER -> <<>>

\* isUnsupportedType
isUnsupportedType(rv) == rv.kind \in {"Bool", "Complex", "Chan", "Func", "Map", "UnsafePointer"}

\* validateMember for an item that does not dive: the error (empty for nil).
validateMember(it, rv) ==
    IF rv.kind = "Ptr" /\ rv.isNil /\ it.mandatory THEN <<"empty mandatory field">>
    ELSE IF rv.kind = "Ptr" /\ rv.isNil THEN <<>>
    ELSE LET elem == IF rv.kind = "Ptr" THEN rv.elem ELSE rv
         IN IF isUnsupportedType(elem) THEN <<>>
            ELSE IF elem.kind = "Slice" THEN validateSlice(it, elem.elems)
            ELSE validateValue(it, valueToString(elem))

\* The values of the members: strings, pointers to strings and the nil
\* pointer, integers, floats, a raw stringer, a bool and slices of strings.
ValueRunes == {"0", "1", "A"}
StringValues == {[kind |-> "String", s |-> s] : s \in StringsUpTo(ValueRunes, MaxValueLen)}
MemberValues ==
    StringValues
    \cup {[kind |-> "Ptr", isNil |-> FALSE, elem |-> v] : v \in StringValues}
    \cup {[kind |-> "Ptr", isNil |-> TRUE]}
    \cup {[kind |-> "Int", n |-> n] : n \in 0..MaxInt}
    \cup {[kind |-> "Float", s |-> s] : s \in {<<"0">>, <<"0", ".", "0">>, <<"1", ".", "5">>}}
    \cup {[kind |-> "RawStringer", raw |-> s] : s \in {<<>>, <<"C">>}}
    \cup {[kind |-> "Bool"]}
    \cup {[kind |-> "Slice", elems |-> e] : e \in {<<>>, << <<>> >>, << <<"0">>, <<"A">> >>}}

\* The schema items: mandatory or optional, with a pattern of a tag.
MemberItems ==
    {validationItem("Member", <<"2", "0">>, m, p) :
        m \in BOOLEAN, p \in {Pattern16x, Pattern1a, Pattern6n}}

InitValidate ==
    /\ member \in {[kind |-> "member", item |-> it, rv |-> rv] :
                      it \in MemberItems, rv \in MemberValues}
    /\ pattern = <<>> /\ input = <<>>
    /\ compiled = [state |-> "none"]
    /\ result = [op |-> "none"]
    /\ wire = <<>> /\ tail = <<>> /\ sep = <<>> /\ failAt = 0
    /\ StopOnError = FALSE /\ Lax = FALSE /\ SkipValidation = FALSE
    /\ mode = "Validate"
    /\ cancelled = FALSE /\ closed = {} /\ panicked = FALSE
    /\ lx = idle /\ pr = idle /\ fw = idle /\ ef = idle /\ cl = idle /\ cv = idle
    /\ outMsgs = <<>> /\ outErrs = <<>>

\* validateMember(item, name, rv)
ValidateMember ==
    /\ mode = "Validate"
    /\ result.op = "none"
    /\ result' = [op |-> "validateMember", err |-> validateMember(member.item, member.rv)]
    /\ UNCHANGED <<reader, goroutines, pattern, compiled>>

SpecValidate == InitValidate /\ [][ValidateMember]_vars

(***************************************************************************)
(* UnmarshalMT on the zero MT940 and one body: the values of the tags 20,  *)
(* 60F, 61 and 86.                                                         *)
(***************************************************************************)
MaxValues == 2

\* Values of tag 61 that decode, and one that is too short for its date.
StatementLineValues ==
    {<<"0", "3", "1", "0", "0", "2", "C", "1", ",", "0", "0", "N", "T", "R", "F">>,
     <<"0", "3", "1", "0", "0", "3", "D", "2", ",", "0", "0", "N", "T", "R", "F">>,
     <<"x">>}

\* Values of tag 86.
InformationValues == {<<"I">>, <<"J">>}

BalanceValue == <<"C", "0", "3", "1", "0", "0", "2", "P", "L", "N", "1", ",", "0", "0">>

\* The map of the body: a tag is a key when it has a value.
BodyFields(f20, f60F, f61, f86) ==
    LET vals == [t \in MT940Tags |->
                    CASE t = <<"2", "0">> -> f20
                      [] t = <<"6", "0", "F">> -> f60F
                      [] t = <<"6", "1">> -> f61
                      [] t = <<"8", "6">> -> f86
                      [] OTHER -> <<>>]
    IN [t \in {u \in MT940Tags : vals[u] # <<>>} |-> vals[t]]

InitUnmarshal ==
    /\ \E f20 \in {<<>>, << <<"R">> >>}, f60F \in {<<>>, <<BalanceValue>>},
          f61 \in StringsUpTo(StatementLineValues, MaxValues),
          f86 \in StringsUpTo(InformationValues, MaxValues) :
          member = [kind |-> "body", fields |-> BodyFields(f20, f60F, f61, f86)]
    /\ pattern = <<>> /\ input = <<>>
    /\ compiled = [state |-> "none"]
    /\ result = [op |-> "none"]
    /\ wire = <<>> /\ tail = <<>> /\ sep = <<>> /\ failAt = 0
    /\ StopOnError = FALSE /\ Lax = FALSE /\ SkipValidation = FALSE
    /\ mode = "UnmarshalMT"
    /\ cancelled = FALSE /\ closed = {} /\ panicked = FALSE
    /\ lx = idle /\ pr = idle /\ fw = idle /\ ef = idle /\ cl = idle /\ cv = idle
    /\ outMsgs = <<>> /\ outErrs = <<>>

\* mt.UnmarshalMT(fields, &mt940)
UnmarshalBody ==
    /\ mode = "UnmarshalMT"
    /\ result.op = "none"
    /\ \E r \in {UnmarshalMT(member.fields, emptyMT940)} :
          result' = [op |-> "UnmarshalMT", v |-> r.v, err |-> r.err, panic |-> r.panic]
    /\ UNCHANGED <<reader, goroutines, pattern, compiled>>

SpecUnmarshal == InitUnmarshal /\ [][UnmarshalBody]_vars

(***************************************************************************)
(* appHeaderBlockToAppHeaderInput on contents that end with an            *)
(* obsolescence period, with and without priority and delivery monitor.   *)
(***************************************************************************)
\* The runes of the obsolescence periods.
PeriodRunes == {"0", "1", "9", "x", "-"}

\* Direction, message type and receiver address: the first 16 runes.
AppHeaderInputStart ==
    <<"I", "9", "4", "0", "S", "C", "B", "L", "Z", "A", "J", "J", "X", "X", "X", "X">>

InitAppHeaderInput ==
    /\ \E opt \in {<<>>, <<"N">>, <<"N", "2">>}, period \in [1..3 -> PeriodRunes] :
          input = AppHeaderInputStart \o opt \o period
    /\ member = [kind |-> "none"]
    /\ pattern = <<>>
    /\ compiled = [state |-> "none"]
    /\ result = [op |-> "none"]
    /\ wire = <<>> /\ tail = <<>> /\ sep = <<>> /\ failAt = 0
    /\ StopOnError = FALSE /\ Lax = FALSE /\ SkipValidation = FALSE
    /\ mode = "AppHeaderInput"
    /\ cancelled = FALSE /\ closed = {} /\ panicked = FALSE
    /\ lx = idle /\ pr = idle /\ fw = idle /\ ef = idle /\ cl = idle /\ cv = idle
    /\ outMsgs = <<>> /\ outErrs = <<>>

\* appHeaderBlockToAppHeaderInput(block) for the block of content input
DecodeAppHeaderInput ==
    /\ mode = "AppHeaderInput"
    /\ result.op = "none"
    /\ \E r \in {appHeaderBlockToAppHeaderInput(Block(blockLabelAppHeader, input, NoFields, <<>>))} :
          result' = [op |-> "appHeaderBlockToAppHeaderInput", v |-> r.v, err |-> r.err]
    /\ UNCHANGED <<reader, goroutines, pattern, compiled>>

SpecAppHeaderInput == InitAppHeaderInput /\ [][DecodeAppHeaderInput]_vars

(***************************************************************************)
(* usrHeaderBlockToUsrHeader on the sub-blocks of one block 3.             *)
(***************************************************************************)
MaxSubBlocks == 3

\* A message input reference with date, and a date and time with seconds.
InputReferenceValue ==
    <<"0", "3", "1", "0", "0", "2", "B", "A", "N", "K", "F", "R", "P", "P", "A", "X", "X", "X",
      "2", "2", "2", "2", "1", "2", "3", "4", "5", "6">>
CheckpointValue == <<"0", "3", "1", "0", "0", "2", "1", "5", "3", "0", "4", "5">>

\* Sub-blocks of block 3: labels stored as text (108 twice), 106 and 423
\* valid and invalid, and a label block 3 does not know.
UsrSubBlocks ==
    {SubBlock(<<"1", "0", "3">>, <<"A">>), SubBlock(<<"1", "0", "8">>, <<"B">>),
     SubBlock(<<"1", "0", "8">>, <<"C">>),
     SubBlock(<<"1", "0", "6">>, InputReferenceValue), SubBlock(<<"1", "0", "6">>, <<"x">>),
     SubBlock(<<"4", "2", "3">>, CheckpointValue), SubBlock(<<"4", "2", "3">>, <<"x">>),
     SubBlock(<<"9", "9", "9">>, <<"Z">>)}

InitUsrHeader ==
    /\ \E subs \in StringsUpTo(UsrSubBlocks, MaxSubBlocks) :
          member = [kind |-> "block",
                    block |-> Block(blockLabelUsrHeader, <<>>, NoFields, subs)]
    /\ pattern = <<>> /\ input = <<>>
    /\ compiled = [state |-> "none"]
    /\ result = [op |-> "none"]
    /\ wire = <<>> /\ tail = <<>> /\ sep = <<>> /\ failAt = 0
    /\ StopOnError = FALSE /\ Lax = FALSE /\ SkipValidation = FALSE
    /\ mode = "UsrHeader"
    /\ cancelled = FALSE /\ closed = {} /\ panicked = FALSE
    /\ lx = idle /\ pr = idle /\ fw = idle /\ ef = idle /\ cl = idle /\ cv = idle
    /\ outMsgs = <<>> /\ outErrs = <<>>

\* usrHeaderBlockToUsrHeader(block)
DecodeUsrHeader ==
    /\ mode = "UsrHeader"
    /\ result.op = "none"
    /\ \E r \in {usrHeaderBlockToUsrHeader(member.block)} :
          result' = [op |-> "usrHeaderBlockToUsrHeader", v |-> r.v, err |-> r.err]
    /\ UNCHANGED <<reader, goroutines, pattern, compiled>>

SpecUsrHeader == InitUsrHeader /\ [][DecodeUsrHeader]_vars

(***************************************************************************)
(* trailersBlockToTrailers on the sub-blocks of one block 5.               *)
(***************************************************************************)
\* The labels of block 5 that have a member of their own.
TrailerLabels ==
    {<<"C", "H", "K">>, <<"T", "N", "G">>, <<"P", "D", "E">>, <<"D", "L", "M">>,
     <<"M", "R", "F">>, <<"P", "D", "M">>, <<"S", "Y", "S">>}

\* Sub-blocks of block 5: CHK, TNG, DLM, a valid PDE, an invalid PDE, MRF,
\* PDM and SYS, an MRF of fewer than 10 runes and a label of no member.
TrailerSubBlocks ==
    {SubBlock(<<"C", "H", "K">>, <<"c">>), SubBlock(<<"T", "N", "G">>, <<>>),
     SubBlock(<<"D", "L", "M">>, <<>>),
     SubBlock(<<"P", "D", "E">>, <<"1", "5", "3", "0">> \o InputReferenceValue),
     SubBlock(<<"P", "D", "E">>, <<"x">>),
     SubBlock(<<"M", "R", "F">>, <<"0", "3", "1", "0", "0", "2", "1", "5", "3", "0", "x">>),
     SubBlock(<<"M", "R", "F">>, <<"1", "2", "3">>),
     SubBlock(<<"P", "D", "M">>, <<"x">>), SubBlock(<<"S", "Y", "S">>, <<"x">>),
     SubBlock(<<"A", "B", "C">>, <<"z">>)}

InitTrailers ==
    /\ \E subs \in StringsUpTo(TrailerSubBlocks, MaxSubBlocks) :
          member = [kind |-> "block",
                    block |-> Block(blockLabelTrailers, <<>>, NoFields, subs)]
    /\ pattern = <<>> /\ input = <<>>
    /\ compiled = [state |-> "none"]
    /\ result = [op |-> "none"]
    /\ wire = <<>> /\ tail = <<>> /\ sep = <<>> /\ failAt = 0
    /\ StopOnError = FALSE /\ Lax = FALSE /\ SkipValidation = FALSE
    /\ mode = "Trailers"
    /\ cancelled = FALSE /\ closed = {} /\ panicked = FALSE
    /\ lx = idle /\ pr = idle /\ fw = idle /\ ef = idle /\ cl = idle /\ cv = idle
    /\ outMsgs = <<>> /\ outErrs = <<>>

\* trailersBlockToTrailers(block); a panic ends the program.
DecodeTrailers ==
    /\ mode = "Trailers"
    /\ result.op = "none"
    /\ \E r \in {trailersBlockToTrailers(member.block)} :
          /\ result' = [op |-> "trailersBlockToTrailers", v |-> r.v, err |-> r.err]
          /\ panicked' = r.panic
    /\ UNCHANGED <<reader, cancelled, closed, lx, pr, fw, ef, cl, cv, outMsgs, outErrs,
                   pattern, compiled>>

SpecTrailers == InitTrailers /\ [][DecodeTrailers]_vars

\* parseAndValidateMT940
parseAndValidateMT940(mtx, skipValidation, lax) ==
    LET parsed(r) ==
            IF r.panic \/ r.err # <<>> \/ skipValidation THEN r
            ELSE IF ValidateMT940(r.v) # <<>> /\ ~lax
            THEN [r EXCEPT !.err = ValidateMT940(r.v)]
            ELSE [r EXCEPT !.err = <<>>]
    IN Once(parsed, MTxToMT940(mtx))

(***************************************************************************)
(* ParseMT940: one more goroutine turns each MTx of ParseMTx into an MT940 *)
(* and sends what fails on the error channel of ParseMTx.                  *)
(***************************************************************************)
converterInit == [pc |-> "recv", mtx |-> <<>>, mt940 |-> <<>>, errs |-> <<>>]

\* The body of the loop over genericMessages up to its first send, r being
\* what parseAndValidateMT940 returned for mtx.
convert(c, mtx, r) ==
    [c EXCEPT !.pc = IF r.panic THEN "panic" ELSE IF r.err # <<>> THEN "sendErr" ELSE "send",
              !.mtx = <<mtx>>,
              !.mt940 = <<r.v>>,
              !.errs = IF r.err # <<>> THEN <<NewError(r.err, mtx.Line, mtx.No)>> ELSE <<>>]

\* for mtx := range genericMessages: the MTx the forwarder sends is received
\* and parseAndValidateMT940 is called.
CvReceive ==
    /\ mode = "ParseMT940"
    /\ cv.pc = "recv"
    /\ fw.pc = "sendMtx"
    /\ ~panicked
    /\ \E r \in {parseAndValidateMT940(Head(fw.mtx), SkipValidation, Lax)} :
           cv' = convert(cv, Head(fw.mtx), r)
    /\ panicked' = (cv'.pc = "panic")
    /\ fw' = [fw EXCEPT !.mtx = <<>>, !.pc = "recv"]
    /\ UNCHANGED <<conf, cancelled, closed, lx, pr, ef, cl, outMsgs, outErrs>>

\* The range over genericMessages ends and the goroutine returns; nothing
\* closes mt940Ch.
CvClosed ==
    /\ cv.pc = "recv"
    /\ "mtxCh" \in closed
    /\ ~panicked
    /\ cv' = [cv EXCEPT !.pc = "done"]
    /\ UNCHANGED <<conf, cancelled, closed, lx, pr, fw, ef, cl, outMsgs, outErrs, panicked>>

\* parseErrors <- NewError(err, mtx.Line): the caller receives it, or the
\* channel is closed already and the send panics.
CvSendError ==
    /\ cv.pc = "sendErr"
    /\ ~panicked
    /\ IF "errCh" \in closed
       THEN /\ panicked' = TRUE
            /\ cv' = [cv EXCEPT !.pc = "panic"]
            /\ outErrs' = outErrs
       ELSE /\ panicked' = FALSE
            /\ cv' = [cv EXCEPT !.errs = <<>>, !.pc = IF Lax THEN "send" ELSE "recv"]
            /\ outErrs' = appendError(outErrs, Head(cv.errs))
    /\ UNCHANGED <<conf, cancelled, closed, lx, pr, fw, ef, cl, outMsgs>>

\* mt940Ch <- mt940, received by the caller of ParseMT940.
CvSendMT940 ==
    /\ cv.pc = "send"
    /\ ~panicked
    /\ outMsgs' = Append(outMsgs, Head(cv.mt940))
    /\ cv' = [cv EXCEPT !.mtx = <<>>, !.mt940 = <<>>, !.pc = "recv"]
    /\ UNCHANGED <<conf, cancelled, closed, lx, pr, fw, ef, cl, outErrs, panicked>>

ConverterNext == CvReceive \/ CvClosed \/ CvSendError \/ CvSendMT940

(***************************************************************************)
(* ParseMTx and ParseMT940 under a scheduler that runs every goroutine     *)
(* that can take a step, with a caller that keeps receiving from both      *)
(* channels.  Nothing obliges the caller to cancel the context.            *)
(***************************************************************************)
MaxLiveMsgs == 1

LiveMsgs == {MsgInput, MsgInput103, MsgBadHeaders, MsgShortMRF}

InitDrivers ==
    /\ InitWith(MsgsUpTo(LiveMsgs, MaxLiveMsgs), {<<>>}, {<<"\n">>}, "ParseMTx")
       \/ InitWith(MsgsUpTo(LiveMsgs, MaxLiveMsgs), {<<>>}, {<<"\n">>}, "ParseMT940")
    /\ Lax \in BOOLEAN
    /\ SkipValidation \in BOOLEAN
    /\ (mode = "ParseMTx" => Lax = FALSE /\ SkipValidation = FALSE)
    /\ fw = forwarderInit /\ ef = errorForwarderInit /\ cl = closerInit
    /\ cv = IF mode = "ParseMT940" THEN converterInit ELSE idle

NextDrivers ==
    \/ Next
    \/ CvReceive
    \/ CvClosed
    \/ CvSendError
    \/ CvSendMT940

FairDrivers ==
    /\ InitDrivers
    /\ [][NextDrivers]_vars
    /\ WF_vars(LexerNext)
    /\ WF_vars(ParserNext)
    /\ WF_vars(ForwarderNext)
    /\ WF_vars(ErrorForwarderNext)
    /\ WF_vars(CloserNext)
    /\ WF_vars(ConverterNext)

(***************************************************************************)
(* ParseMTx and ParseMT940 over messages with an MT940 body, under the     *)
(* same scheduler and caller.                                              *)
(***************************************************************************)
MT940Msgs ==
    {Msg940, Msg940BadNumber, Msg940NoBalance, Msg940BadBalance, Msg940ShortLine,
     Msg103Body, MsgInput, MsgBadHeaders}

InitMT940 ==
    /\ InitWith(MsgsUpTo(MT940Msgs, MaxLiveMsgs), {<<>>}, {<<"\n">>}, "ParseMTx")
       \/ InitWith(MsgsUpTo(MT940Msgs, MaxLiveMsgs), {<<>>}, {<<"\n">>}, "ParseMT940")
    /\ Lax \in BOOLEAN
    /\ SkipValidation \in BOOLEAN
    /\ (mode = "ParseMTx" => Lax = FALSE /\ SkipValidation = FALSE)
    /\ fw = forwarderInit /\ ef = errorForwarderInit /\ cl = closerInit
    /\ cv = IF mode = "ParseMT940" THEN converterInit ELSE idle

SpecMT940 == InitMT940 /\ [][NextDrivers]_vars

FairMT940 ==
    /\ InitMT940
    /\ [][NextDrivers]_vars
    /\ WF_vars(LexerNext)
    /\ WF_vars(ParserNext)
    /\ WF_vars(ForwarderNext)
    /\ WF_vars(ErrorForwarderNext)
    /\ WF_vars(CloserNext)
    /\ WF_vars(ConverterNext)

(***************************************************************************)
(* The batch entry points.  An error result is an interface value: nil, or *)
(* a value of type Errors, which is not nil even when the slice in it is.  *)
(***************************************************************************)
NilError == [typ |-> "nil", errs |-> <<>>]

\* An Errors value returned as error.
ErrorsAsError(es) == [typ |-> "Errors", errs |-> es]

\* ParseAllMTx, once both channels of ParseMTx are closed and wg.Wait() has
\* returned: msgs and errs are what its two goroutines have collected.
ParseAllMTx(msgs, errs) ==
    IF Len(errs) > 0 THEN [msgs |-> msgs, err |-> ErrorsAsError(errs)]
    ELSE [msgs |-> msgs, err |-> NilError]

\* ParseAllMT940 on what ParseAllMTx returned: the loop over genericMessages
\* and the return.
RECURSIVE ParseAllMT940Loop(_, _, _, _)
ParseAllMT940Loop(msgs, skipValidation, lax, acc) ==
    IF msgs = <<>> \/ acc.panic THEN acc
    ELSE LET step(r) ==
                 IF r.panic THEN [acc EXCEPT !.panic = TRUE]
                 ELSE IF r.err # <<>>
                 THEN [acc EXCEPT
                          !.errs = Append(acc.errs,
                                          NewError(r.err, Head(msgs).Line, Head(msgs).No)),
                          !.mt940s = IF lax THEN Append(acc.mt940s, r.v) ELSE acc.mt940s]
                 ELSE [acc EXCEPT !.mt940s = Append(acc.mt940s, r.v)]
         IN ParseAllMT940Loop(Tail(msgs), skipValidation, lax,
                              Once(step, parseAndValidateMT940(Head(msgs), skipValidation, lax)))

ParseAllMT940(all, skipValidation, lax) ==
    LET return(acc) == [mt940s |-> acc.mt940s, err |-> ErrorsAsError(acc.errs),
                        panic |-> acc.panic]
    IN Once(return,
            ParseAllMT940Loop(all.msgs, skipValidation, lax,
                              [mt940s |-> <<>>,
                               errs |-> IF all.err # NilError THEN all.err.errs ELSE <<>>,
                               panic |-> FALSE]))

(***************************************************************************)
(* What the input holds, read off the list of blocks it was rendered from. *)
(***************************************************************************)
CanonicalLabels ==
    {blockLabelBasicHeader, blockLabelAppHeader, blockLabelUsrHeader,
     blockLabelBody, blockLabelTrailers}

\* The values of the occurrences of tag in a list of <<tag, value>> pairs.
RECURSIVE ValuesOf(_, _)
ValuesOf(pairs, tag) ==
    IF pairs = <<>> THEN <<>>
    ELSE (IF Head(pairs)[1] = tag THEN <<Head(pairs)[2]>> ELSE <<>>)
         \o ValuesOf(Tail(pairs), tag)

TagsOf(pairs) == {pairs[i][1] : i \in 1..Len(pairs)}

\* The index of the last block of w labelled "1", 0 when there is none.
LastBasic(w) ==
    LET S == {i \in 1..Len(w) : w[i].label = blockLabelBasicHeader}
    IN IF S = {} THEN 0 ELSE CHOOSE i \in S : \A j \in S : j <= i

TailStartsMessage == HasPrefix(tail, <<"{", "1", ":">>)

\* The blocks completed since the last block-1 label of the input.
OpenGroup ==
    IF TailStartsMessage THEN <<>>
    ELSE IF LastBasic(wire) = 0 THEN wire
    ELSE SubSeq(wire, LastBasic(wire), Len(wire))

\* The slot of message m for a label.
Slot(m, label) ==
    CASE label = blockLabelBasicHeader -> m.BasicHeader
      [] label = blockLabelAppHeader -> m.AppHeader
      [] label = blockLabelUsrHeader -> m.UsrHeader
      [] label = blockLabelTrailers -> m.Trailers
      [] OTHER -> newBlock

\* Message m holds block b of the input.
Holds(m, b) ==
    IF b.label = blockLabelBody
    THEN /\ DOMAIN m.Body = TagsOf(b.fields)
         /\ \A t \in TagsOf(b.fields) : m.Body[t] = ValuesOf(b.fields, t)
    ELSE /\ Slot(m, b.label).Label = b.label
         /\ Slot(m, b.label).Blocks = b.subs
         /\ (b.subs = <<>> => Slot(m, b.label).Content = b.text)

\* Message m holds every block of g that has one of the five labels (the
\* last one of each label: a message has one slot per label).
HoldsGroup(m, g) ==
    \A i \in 1..Len(g) :
        (/\ g[i].label \in CanonicalLabels
         /\ \A j \in (i + 1)..Len(g) : g[j].label # g[i].label)
        => Holds(m, g[i])

ReachedEOF == failAt = 0 /\ lx.state = "nil"

ParseClosed == {"messages", "errors"} \subseteq closed

FinalFlushed ==
    OpenGroup # <<>> => (outMsgs # <<>> /\ HoldsGroup(outMsgs[Len(outMsgs)], OpenGroup))

\* C1: when the lexer has read EOF with no read error and the caller keeps
\* receiving, message.Parse closes the message and the error channel, and
\* by then the last message received holds the blocks completed since the
\* last block-1 label (when there is such a block).
C1_FlushAndClose == ReachedEOF ~> (ParseClosed /\ FinalFlushed)

C1_Witness ==
    /\ ReachedEOF
    /\ ParseClosed
    /\ Len(outMsgs) = 2
    /\ Len(OpenGroup) = 1
    /\ HoldsGroup(outMsgs[2], OpenGroup)

\* The messages of the input: the list of blocks w cut in front of each
\* block labelled "1".
RECURSIVE GroupsOf(_)
GroupsOf(w) ==
    IF w = <<>> THEN <<>>
    ELSE LET cut(g, b) ==
                 IF g = <<>> \/ b.label = blockLabelBasicHeader THEN Append(g, <<b>>)
                 ELSE [g EXCEPT ![Len(g)] = Append(g[Len(g)], b)]
         IN cut(GroupsOf(SubSeq(w, 1, Len(w) - 1)), w[Len(w)])

\* The number of blocks of w labelled "1".
CountBasic(w) == Cardinality({i \in 1..Len(w) : w[i].label = blockLabelBasicHeader})

\* The last block of g that has the label, as a list of none or one.
LastOf(g, label) ==
    LET S == {i \in 1..Len(g) : g[i].label = label}
    IN IF S = {} THEN <<>> ELSE <<g[CHOOSE i \in S : \A j \in S : j <= i]>>

\* The channels the entry point returned are closed.
ReturnedClosed ==
    IF mode = "ParseMT940" THEN {"mt940Ch", "errCh"} \subseteq closed
    ELSE {"mtxCh", "errCh"} \subseteq closed

\* C2: once the input is exhausted (EOF read with no read error) and the
\* caller keeps receiving, both channels returned by ParseMTx and both
\* channels returned by ParseMT940 are eventually closed.
C2_ReturnedChannelsClose == ReachedEOF ~> ReturnedClosed

\* C3: when the context is cancelled while input remains, the lexer
\* eventually closes its item channel and the parser then closes the message
\* channel and the error channel.
C3_CancelCloses ==
    (cancelled /\ lx.state # "nil" /\ lx.pos <= Len(input))
        ~> ("items" \in closed /\ ParseClosed)

\* The text of the blocks 1 and 2 of the message g of the input.
HeadersOf(g) ==
    Concat([i \in 1..Len(LastOf(g, blockLabelBasicHeader)) |->
               RenderBlock(LastOf(g, blockLabelBasicHeader)[i])])
    \o Concat([i \in 1..Len(LastOf(g, blockLabelAppHeader)) |->
                  RenderBlock(LastOf(g, blockLabelAppHeader)[i])])

\* The MTx m is the message number m.No of the input.
IsMessageOfInput(m) ==
    /\ m.No \in 1..Len(GroupsOf(wire))
    /\ m.BasicHeader.Raw \o m.AppHeaderInput.Raw \o m.AppHeaderOutput.Raw
           = HeadersOf(GroupsOf(wire)[m.No])

\* C4: the MTx messages the caller of ParseMTx has received (the slice of
\* ParseAllMTx) are messages of the input, in the order of the input,
\* whatever the interleaving of the goroutines.
C4_MessagesInInputOrder ==
    \A i \in 1..Len(outMsgs) :
        /\ IsMessageOfInput(outMsgs[i])
        /\ \A j \in (i + 1)..Len(outMsgs) : outMsgs[i].No < outMsgs[j].No

C4_Witness ==
    /\ Len(outMsgs) = 2
    /\ IsInput(outMsgs[1])
    /\ IsOutput(outMsgs[2])
    /\ "errCh" \in closed

\* C5: the errors the caller of ParseMTx has received are in source order:
\* no error of a smaller line comes after an error of a larger line.
C5_ErrorsInSourceOrder ==
    \A i \in 1..Len(outErrs) :
        \A j \in (i + 1)..Len(outErrs) : outErrs[i].line <= outErrs[j].line

\* The message number n of the block parser has had its outcome: the MTx
\* and no error when no decoder failed, else no MTx and one error for each
\* failure.
Settled(n) ==
    /\ mode = "ParseMTx"
    /\ n <= Len(fw.seen)
    /\ LET mtxs == {i \in 1..Len(outMsgs) : outMsgs[i].No = n}
           errs == {i \in 1..Len(outErrs) : outErrs[i].no = n}
       IN IF fw.seen[n] = 0
          THEN Cardinality(mtxs) = 1 /\ errs = {}
          ELSE mtxs = {} /\ Cardinality(errs) = fw.seen[n]

\* No message has both an MTx and an error delivered.
NeverBoth ==
    \A i \in 1..Len(outMsgs) : \A j \in 1..Len(outErrs) : outMsgs[i].No # outErrs[j].no

\* C6: for every message the block parser produces, ParseMTx delivers
\* the MTx, or else one error for each decoder failure and no MTx: never
\* both, and in the end one of the two.
C6_ExactlyOneOutcome ==
    /\ [](mode = "ParseMTx" => NeverBoth)
    /\ \A n \in 1..(MaxLiveMsgs + 1) : (mode = "ParseMTx" /\ pr.sent >= n) ~> Settled(n)

\* The parser has returned after reading an input made of complete blocks.
ParsedCompleteBlocks == pr.pc = "done" /\ tail = <<>> /\ failAt = 0

\* C7 as stated: the number of messages message.Parse emits is the number
\* of blocks labelled "1" of an input made of complete blocks.
C7_OnePerBasicHeader == ParsedCompleteBlocks => Len(outMsgs) = CountBasic(wire)

\* C7, amended: the number of messages is the number of blocks labelled "1",
\* and one more when the first block of the input is not labelled "1" (the
\* blocks in front of the first block 1 make a message too).
C7_OnePerBasicHeaderAndLead ==
    ParsedCompleteBlocks =>
        Len(outMsgs) = CountBasic(wire)
                       + (IF wire # <<>> /\ wire[1].label # blockLabelBasicHeader
                          THEN 1 ELSE 0)

C7_Witness ==
    /\ ParsedCompleteBlocks
    /\ Len(wire) = 2
    /\ wire[1].label # blockLabelBasicHeader
    /\ wire[2].label = blockLabelBasicHeader
    /\ Len(outMsgs) = 2

\* C8 as stated: every message message.Parse emits has a basic header
\* block labelled "1".
C8_BasicHeaderPresent ==
    \A i \in 1..Len(outMsgs) : outMsgs[i].BasicHeader.Label = blockLabelBasicHeader

\* C8, amended: every message message.Parse emits has a basic header block
\* labelled "1", but the message made of the blocks in front of the first
\* block 1 of the input.
C8_BasicHeaderPresentAfterLead ==
    \A i \in 1..Len(outMsgs) :
        (i > 1 \/ wire[1].label = blockLabelBasicHeader)
            => outMsgs[i].BasicHeader.Label = blockLabelBasicHeader

C8_Witness ==
    /\ Len(outMsgs) = 2
    /\ wire[1].label # blockLabelBasicHeader
    /\ outMsgs[1].BasicHeader = newBlock
    /\ outMsgs[2].BasicHeader.Label = blockLabelBasicHeader

\* C9: in every message message.Parse emits, the values of each tag are
\* the values of the occurrences of the tag in block 4 of the message, in
\* the order of the input (values without surrounding whitespace and without
\* the delimiters ":" and "-}"): a repeated tag appends.
C9_BodyInWireOrder ==
    \A i \in 1..Len(outMsgs) :
        /\ i <= Len(GroupsOf(wire))
        /\ LET body == LastOf(GroupsOf(wire)[i], blockLabelBody)
           IN IF body = <<>> THEN outMsgs[i].Body = NoFields
              ELSE /\ DOMAIN outMsgs[i].Body = TagsOf(body[1].fields)
                   /\ \A t \in TagsOf(body[1].fields) :
                          outMsgs[i].Body[t] = ValuesOf(body[1].fields, t)

C9_Witness ==
    /\ wire = <<PlainBody2, PlainBody>>
    /\ Len(outMsgs) = 1
    /\ DOMAIN outMsgs[1].Body = {<<"2", "0">>, <<"6", "1">>}
    /\ outMsgs[1].Body[<<"6", "1">>] = <<<<"x">>, <<"y">>, <<"x">>>>
    /\ outMsgs[1].Body[<<"2", "0">>] = <<<<"r", "\n", "s">>>>

\* C10: every MTx the caller of ParseMTx has received is an input message
\* or an output message and not both: input when block 2 of the message
\* starts with "I", output when it starts with "O".
C10_InputXorOutput ==
    \A i \in 1..Len(outMsgs) :
        /\ IsInput(outMsgs[i]) # IsOutput(outMsgs[i])
        /\ outMsgs[i].No \in 1..Len(GroupsOf(wire))
        /\ LET app == LastOf(GroupsOf(wire)[outMsgs[i].No], blockLabelAppHeader)
           IN /\ app # <<>>
              /\ IsInput(outMsgs[i]) <=> Head(app[1].text) = "I"
              /\ IsOutput(outMsgs[i]) <=> Head(app[1].text) = "O"

C10_Witness ==
    /\ Len(outMsgs) = 2
    /\ IsOutput(outMsgs[1]) /\ ~IsInput(outMsgs[1])
    /\ IsInput(outMsgs[2]) /\ ~IsOutput(outMsgs[2])

(***************************************************************************)
(* What ParseMT940 delivered, by the number of the message.                *)
(***************************************************************************)
\* The converter holds an error of message n to send on parseErrors.
ConversionFailed(n) ==
    /\ mode = "ParseMT940"
    /\ cv.pc = "sendErr"
    /\ Head(cv.errs).no = n

\* The converter holds the validator's error of message n.
ValidationFailed(n) == ConversionFailed(n) /\ Head(cv.errs).cause = <<"validation failed">>

\* The errors the caller received for message n from the converter.
ConversionErrors(n) ==
    {i \in 1..Len(outErrs) :
        /\ outErrs[i].no = n
        /\ Head(outErrs[i].cause)
               \in {"expected message type", "could not unmarshal", "validation failed"}}

\* The MT940s the caller received that carry the headers of message n.
DeliveredMT940(n) ==
    IF mode = "ParseMT940"
    THEN {j \in 1..Len(outMsgs) : outMsgs[j].Base # <<>> /\ outMsgs[j].Base[1].No = n}
    ELSE {}

\* C11: with Lax, a message of ParseMT940 whose validation fails is delivered
\* all the same, and its validation error reaches the error channel.
C11_LaxDeliversInvalid ==
    \A n \in 1..MaxLiveMsgs :
        (Lax /\ ValidationFailed(n))
            ~> (/\ DeliveredMT940(n) # {}
                /\ \E i \in ConversionErrors(n) : outErrs[i].cause = <<"validation failed">>)

\* Without Lax no message has both an MT940 and a conversion error, sent or
\* still to send, and none has two conversion errors.
NeverDeliveredWithError(n) ==
    (mode = "ParseMT940" /\ ~Lax) =>
        /\ Cardinality(ConversionErrors(n)) <= 1
        /\ (ConversionErrors(n) # {} \/ ConversionFailed(n)) => DeliveredMT940(n) = {}

\* One conversion error of message n has arrived and carries the line of
\* the MTx the converter still holds.
OneErrorWithLine(n) ==
    /\ Cardinality(ConversionErrors(n)) = 1
    /\ cv.mtx # <<>> /\ Head(cv.mtx).No = n
    /\ \A i \in ConversionErrors(n) : outErrs[i].line = Head(cv.mtx).Line

\* C12: without Lax, a message whose conversion or validation fails is never
\* delivered as an MT940 by ParseMT940, and exactly one error with the line
\* of that message is reported for it.
C12_StrictDropsInvalid ==
    \A n \in 1..MaxLiveMsgs :
        /\ []NeverDeliveredWithError(n)
        /\ (~Lax /\ ConversionFailed(n)) ~> OneErrorWithLine(n)

\* C13: with SkipValidation no validation takes place in ParseMT940: the
\* converter never holds a validation error and none is reported.
C13_SkipValidationSkips ==
    (mode = "ParseMT940" /\ SkipValidation) =>
        /\ \A n \in 1..MaxLiveMsgs : ~ValidationFailed(n)
        /\ \A i \in 1..Len(outErrs) : outErrs[i].cause # <<"validation failed">>

\* C14: with StopOnError, once the parser has an error of the lexer to send,
\* message.Parse closes its two channels and the lexer goroutine ends as
\* well, closing its item channel: it is not left blocked on a send.
C14_StopOnErrorEndsLexer ==
    (StopOnError /\ pr.pc = "sendErr") ~> (ParseClosed /\ "items" \in closed)


\* Where ParseMTx had got to when it delivered its first error: the number
\* of the message the error belongs to or, for an error of the lexer, the
\* number of messages the block parser had sent.
FirstErrorAt == IF outErrs[1].no > 0 THEN outErrs[1].no ELSE pr.sent

\* C15: with StopOnError, once ParseMTx has delivered its first error, of the
\* lexer or of a header decoder, it delivers no MTx and no error of a later
\* message.
C15_StopsOnFirstError ==
    [][(mode = "ParseMTx" /\ StopOnError /\ outErrs # <<>>) =>
          /\ \A i \in (Len(outMsgs) + 1)..Len(outMsgs') : outMsgs'[i].No <= FirstErrorAt
          /\ \A i \in (Len(outErrs) + 1)..Len(outErrs') : outErrs'[i].no <= FirstErrorAt]_vars

\* C16: without StopOnError the lexer goes on after a read that failed: when
\* it has closed its item channel it has read the whole input, and when the
\* parser has returned the messages of the input have been emitted.
C16_ContinuesAfterReadError ==
    (mode = "Parse" /\ ~StopOnError /\ failAt \in 1..Len(input)) =>
        /\ "items" \in closed => lx.pos > Len(input)
        /\ (pr.pc = "done" /\ tail = <<>>) =>
               Len(outMsgs) = CountBasic(wire)
                              + (IF wire # <<>> /\ wire[1].label # blockLabelBasicHeader
                                 THEN 1 ELSE 0)

\* A read has failed and the lexer has left its state functions.
ReadFailed == mode = "Parse" /\ failAt # 0 /\ lx.state = "nil"

\* The errors of a failed read among the errors the caller received.
ReadErrors == IF mode = "Parse" THEN {i \in 1..Len(outErrs) : outErrs[i].Err = ReadErrorText} ELSE {}

\* C17: when a read fails, message.Parse delivers exactly one error for it
\* and then closes the message and the error channel, with StopOnError and
\* without it: never two such errors, none missing once the channels are
\* closed, and the channels do get closed.
C17_ReadErrorOnceThenClosed ==
    /\ [](Cardinality(ReadErrors) <= 1)
    /\ []((ReadFailed /\ ParseClosed) => Cardinality(ReadErrors) = 1)
    /\ ReadFailed ~> ParseClosed

C17_Witness ==
    /\ ReadFailed
    /\ ParseClosed
    /\ StopOnError
    /\ Cardinality(ReadErrors) = 1
    /\ Len(outMsgs) = 1

\* ParseMTx has closed both its channels: ParseAllMTx returns.
BatchReturned == mode = "ParseMTx" /\ {"mtxCh", "errCh"} \subseteq closed

\* The conversion errors of the messages ParseMTx delivered.
ConversionErrorsOf(msgs, skipValidation, lax) ==
    {i \in 1..Len(msgs) : parseAndValidateMT940(msgs[i], skipValidation, lax).err # <<>>}

\* ParseAllMTx returns nil when ParseMTx delivered no error, and else the
\* errors it delivered.
ParseAllMTxNilIffNoError ==
    BatchReturned =>
        /\ (ParseAllMTx(outMsgs, outErrs).err = NilError) <=> (outErrs = <<>>)
        /\ outErrs # <<>> => ParseAllMTx(outMsgs, outErrs).err = ErrorsAsError(outErrs)

\* ParseAllMT940 returns nil when neither ParseMTx nor a conversion gave an
\* error, whatever the options.
ParseAllMT940NilIffNoError ==
    BatchReturned =>
        \A skip \in BOOLEAN, lax \in BOOLEAN :
            LET nilIff(r) ==
                    ~r.panic =>
                        ((r.err = NilError)
                            <=> (outErrs = <<>> /\ ConversionErrorsOf(outMsgs, skip, lax) = {}))
            IN Once(nilIff, ParseAllMT940(ParseAllMTx(outMsgs, outErrs), skip, lax))

\* C18: ParseAllMTx and ParseAllMT940 return a nil error exactly when no
\* error occurred, and else one error value holding the errors.
C18_NilErrorIffNoError == ParseAllMTxNilIffNoError /\ ParseAllMT940NilIffNoError

\* C19: for every MTx the caller of ParseMTx has received, HasUserHeader
\* holds exactly when the message has a block labelled 3 in the input, and
\* HasTrailers exactly when it has a block labelled 5.
C19_HeaderFlagsTellPresence ==
    \A i \in 1..Len(outMsgs) :
        /\ outMsgs[i].No \in 1..Len(GroupsOf(wire))
        /\ HasUserHeader(outMsgs[i])
               <=> (LastOf(GroupsOf(wire)[outMsgs[i].No], blockLabelUsrHeader) # <<>>)
        /\ HasTrailers(outMsgs[i])
               <=> (LastOf(GroupsOf(wire)[outMsgs[i].No], blockLabelTrailers) # <<>>)

\* The labels of the blocks of the input, in order.
LabelsOf(w) == [i \in 1..Len(w) |-> w[i].label]

\* The input is one message of the blocks 1, 2, 3, 4, 5 in this order, with
\* nothing between the blocks and nothing after them, and it has been read
\* to its end and parsed.
ParsedCanonical ==
    /\ ParsedCompleteBlocks
    /\ sep = <<>>
    /\ LabelsOf(wire) = <<blockLabelBasicHeader, blockLabelAppHeader, blockLabelUsrHeader,
                          blockLabelBody, blockLabelTrailers>>

\* C20: the Raw of the message parsed from an input whose blocks are 1, 2,
\* 3, 4, 5 in this order, without whitespace between them, is the text of
\* the input.
C20_RawIsInputText ==
    ParsedCanonical => (Len(outMsgs) = 1 /\ outMsgs[1].Raw = input)

\* The Content the parser keeps for block b of the input: the text of a
\* block of plain text, the text in front of the closing brace otherwise.
ContentOf(b) ==
    IF b.subs # <<>> THEN <<>> ELSE IF b.fields # <<>> THEN <<"-">> ELSE b.text

\* "{label:content}" for the last block of g with the label, nothing when
\* g has no such block.
Reconstruction(g, label) ==
    IF LastOf(g, label) = <<>> THEN <<>>
    ELSE RawBlock(label, ContentOf(LastOf(g, label)[1]))

\* C21: the Raw of each message of message.Parse is made of "{label:content}"
\* for its blocks labelled 1, 2, 3, 4, 5, in this order whatever the order in
\* the input; labels the message lacks and other labels add nothing.
C21_RawInCanonicalOrder ==
    ParsedCompleteBlocks =>
        /\ Len(outMsgs) = Len(GroupsOf(wire))
        /\ \A i \in 1..Len(outMsgs) :
               outMsgs[i].Raw
                   = Reconstruction(GroupsOf(wire)[i], blockLabelBasicHeader)
                     \o Reconstruction(GroupsOf(wire)[i], blockLabelAppHeader)
                     \o Reconstruction(GroupsOf(wire)[i], blockLabelUsrHeader)
                     \o Reconstruction(GroupsOf(wire)[i], blockLabelBody)
                     \o Reconstruction(GroupsOf(wire)[i], blockLabelTrailers)

C21_Witness ==
    /\ ParsedCompleteBlocks
    /\ LabelsOf(wire) = <<blockLabelTrailers, blockLabelAppHeader>>
    /\ Len(outMsgs) = 1
    /\ outMsgs[1].Raw = <<"{", "2", ":", "b", "}", "{", "5", ":", "}">>

\* C22: the error message.Parse delivers for a failed read carries the line
\* of the input where the read failed: 1 plus the number of newlines read
\* before it.
C22_ErrorLineIsWhereReadFailed ==
    \A i \in ReadErrors : outErrs[i].Line = 1 + CountNL(SubSeq(input, 1, failAt - 1))

\* C23: messageToMTx returns, with a header and its errors, for every
\* message the block parser sends: the forwarding goroutine is never ended
\* by an out-of-range slice.
C23_DecodingNeverAborts ==
    mode = "ParseMTx" =>
        /\ fw.pc # "panic"
        /\ pr.pc = "sendMsg" => ~messageToMTx(Head(pr.msgs)).panic

(***************************************************************************)
(* The pattern package: what the claims talk about.                        *)
(***************************************************************************)
\* The compiled pattern is the one node it holds.
CompiledNode == compiled.Pattern.Nodes[1]

\* The last call was ValidatePartial / Validate on a pattern of one node of
\* the kind.
PartialOn(kind) ==
    /\ mode = "Pattern"
    /\ compiled.state = "ok"
    /\ result.op = "ValidatePartial"
    /\ Len(compiled.Pattern.Nodes) = 1
    /\ CompiledNode.kind = kind

ValidateOn(kind) ==
    /\ mode = "Pattern"
    /\ compiled.state = "ok"
    /\ result.op = "Validate"
    /\ Len(compiled.Pattern.Nodes) = 1
    /\ CompiledNode.kind = kind

\* The results of the sides of the or pattern that succeed on the input.
SucceedingSides ==
    {x \in {ValidatePartial(CompiledNode.Left, input, result.currLine),
            ValidatePartial(CompiledNode.Right, input, result.currLine)} : ~x.err}

\* C24: the partial match of Or(a, b) succeeds as soon as one side succeeds,
\* with the remainder of a succeeding side whose remainder is shortest, and
\* fails only when both sides fail.
C24_OrTakesShortestSuccess ==
    PartialOn("OrPattern") =>
        IF SucceedingSides = {} THEN result.err
        ELSE /\ ~result.err
             /\ \E x \in SucceedingSides :
                   /\ result.rest = x.rest
                   /\ \A y \in SucceedingSides : Len(x.rest) <= Len(y.rest)

\* The number of runes of s that are in the set.
RECURSIVE CountIn(_, _)
CountIn(s, set) ==
    IF s = <<>> THEN 0 ELSE (IF Head(s) \in set THEN 1 ELSE 0) + CountIn(Tail(s), set)

\* s is digits, one comma, digits, with a digit on each side of the comma.
IsAmount(s) ==
    /\ CountIn(s, {","}) = 1
    /\ CountIn(s, Digits) = Len(s) - 1
    /\ Head(s) # ","
    /\ s[Len(s)] # ","

\* s has a comma, and no digit right after its first comma.
NoDigitAfterComma(s) ==
    /\ CountIn(s, {","}) >= 1
    /\ LET i == IndexOf(s, ",", 1) IN i = Len(s) \/ s[i + 1] \notin Digits

\* C25: Validate of a d group of count c accepts digits, one comma, digits
\* with at most c digits in all, and rejects a text with no comma, with no
\* digit after the comma, or with two commas.
C25_AmountGroupValidate ==
    ValidateOn("CharGroup") /\ CompiledNode.charSetKey = "d" =>
        /\ IsAmount(input) /\ CountIn(input, Digits) <= CompiledNode.Count =>
              result.err = "nil"
        /\ \/ CountIn(input, {","}) = 0
           \/ NoDigitAfterComma(input)
           \/ CountIn(input, {","}) = 2
           => result.err # "nil"

\* Every rune of s is in the character set of the key.
AllInCharSet(s, key) == \A i \in 1..Len(s) : charSets(key, s[i])

\* C26: Validate of a group of count c over n, a, c or x accepts exactly the
\* texts of runes of the set that have at most c runes, and exactly c runes
\* when the count is strict.
C26_CharGroupValidate ==
    ValidateOn("CharGroup") /\ CompiledNode.charSetKey \in {"n", "a", "c", "x"} =>
        (result.err = "nil" <=>
            /\ AllInCharSet(input, CompiledNode.charSetKey)
            /\ IF CompiledNode.CountStrict THEN Len(input) = CompiledNode.Count
               ELSE Len(input) <= CompiledNode.Count)

\* A strict group of two letters has refused a text of one letter.
C26_Witness ==
    /\ ValidateOn("CharGroup")
    /\ pattern = <<"2", "!", "a">>
    /\ input = <<"A">>
    /\ result.err = "input invalid"

\* The lines of the input, and those the pattern of the line pattern does
\* not match whole.
InputLines == SplitLines(input)
UnmatchedLines ==
    {i \in 1..Len(InputLines) : PatternValidate(CompiledNode.Pattern, InputLines[i])}
FirstUnmatchedLine == CHOOSE i \in UnmatchedLines : \A j \in UnmatchedLines : i <= j

\* The line count n of the line pattern n*p.
LineCountOf(lp) == lp.end - lp.from

\* C27: Validate of n*p accepts an input of 1..n lines that p matches whole
\* one by one, names the line that p does not match whole in its error, and
\* rejects an input of more than n lines.
C27_LinePatternValidate ==
    ValidateOn("LinePattern") =>
        /\ Len(InputLines) <= LineCountOf(CompiledNode) /\ UnmatchedLines = {} =>
              result.err = "nil"
        /\ UnmatchedLines # {} /\ FirstUnmatchedLine <= LineCountOf(CompiledNode) =>
              result.err = "input invalid" /\ result.lines = <<FirstUnmatchedLine>>
        /\ Len(InputLines) > LineCountOf(CompiledNode) => result.err # "nil"

\* The last call was Validate on a pattern whose last node, a line pattern,
\* follows other nodes.
ValidateOnFollowingLinePattern ==
    /\ mode = "Pattern"
    /\ compiled.state = "ok"
    /\ result.op = "Validate"
    /\ Len(compiled.Pattern.Nodes) > 1
    /\ compiled.Pattern.Nodes[Len(compiled.Pattern.Nodes)].kind = "LinePattern"

FollowingLinePattern == compiled.Pattern.Nodes[Len(compiled.Pattern.Nodes)]

\* What the nodes before the line pattern make of the input.
BeforeLinePattern ==
    PatternValidatePartial(SubSeq(compiled.Pattern.Nodes, 1, Len(compiled.Pattern.Nodes) - 1),
                           input, 1)

\* The newlines the nodes before the line pattern have consumed.
NewlinesConsumed == CountNL(input) - CountNL(BeforeLinePattern.rest)

\* C28: the line of an error counts every newline consumed by the whole
\* pattern: a line pattern that follows nodes which consumed j newlines
\* reports a mismatch on its first line as line j + 1.
C28_LineCountsConsumedNewlines ==
    /\ ValidateOnFollowingLinePattern
    /\ ~BeforeLinePattern.err
    /\ PatternValidate(FollowingLinePattern.Pattern, SplitLines(BeforeLinePattern.rest)[1])
    => /\ result.err = "input invalid"
       /\ result.lines = <<NewlinesConsumed + 1>>

\* s starts with digits, a comma and a digit.
StartsWithAmount(s) ==
    \E i \in 1..Len(s) :
        /\ \A j \in 1..(i - 1) : s[j] \in Digits
        /\ s[i] = ","
        /\ i < Len(s)
        /\ s[i + 1] \in Digits

\* C29: the partial match of a d group, strict or not, returns an error
\* when the input does not start with digits, a comma and a digit, and
\* never succeeds without consuming a rune.
C29_AmountGroupPartialFails ==
    PartialOn("CharGroup") /\ CompiledNode.charSetKey = "d" =>
        /\ ~StartsWithAmount(input) => result.err
        /\ ~result.err => result.rest # input

\* The text has a '*' that no digit precedes.
HasBareLineCountMeta(text) ==
    \E i \in 1..Len(text) :
        /\ text[i] = lineCountMetaRune
        /\ i = 1 \/ text[i - 1] \notin Digits

\* The text has two '*' in a row.
HasTwoLineCountMetas(text) ==
    \E i \in 1..(Len(text) - 1) :
        text[i] = lineCountMetaRune /\ text[i + 1] = lineCountMetaRune

\* C30: pattern.Parse returns the error 'unexpected token' for every text
\* with a '*' that no number precedes and for every text with two '*' in a
\* row.
C30_BareLineCountMetaIsUnexpected ==
    /\ mode = "Pattern"
    /\ compiled.state # "none"
    /\ HasBareLineCountMeta(pattern) \/ HasTwoLineCountMetas(pattern)
    => compiled.state = "err" /\ compiled.err = "unexpected token"

\* The scalar behind a member: the value, or what a pointer points to.
ScalarOf(rv) == IF rv.kind = "Ptr" /\ ~rv.isNil THEN rv.elem ELSE rv

\* The member is empty: the empty string, the nil pointer.
IsEmptyValue(rv) ==
    \/ rv.kind = "Ptr" /\ rv.isNil
    \/ ScalarOf(rv).kind = "String" /\ ScalarOf(rv).s = <<>>
    \/ ScalarOf(rv).kind = "RawStringer" /\ ScalarOf(rv).raw = <<>>

\* The member is a number that is zero.
IsNumericZero(rv) ==
    \/ ScalarOf(rv).kind = "Int" /\ ScalarOf(rv).n = 0
    \/ ScalarOf(rv).kind = "Float" /\ StripLeadingZeros(SelectSeq(ScalarOf(rv).s, LAMBDA c : c # ".")) = <<>>

\* C31: for a mandatory item, "empty mandatory field" is reported exactly
\* when the value is empty (empty string, nil pointer) or a numeric zero, so
\* never for a non-empty string; an empty optional member has no error.
C31_EmptyMandatoryField ==
    (/\ mode = "Validate"
     /\ result.op = "validateMember"
     /\ ScalarOf(member.rv).kind \in {"Ptr", "String", "RawStringer", "Int", "Float"})
    => /\ member.item.mandatory =>
            (result.err = <<"empty mandatory field">>
                <=> IsEmptyValue(member.rv) \/ IsNumericZero(member.rv))
       /\ ~member.item.mandatory /\ IsEmptyValue(member.rv) => result.err = <<>>


\* C32: after UnmarshalMT returned without error, StatementLines has one
\* element for each value of tag 61 of the body and AccountOwnerInformation
\* holds the values of tag 86, in their order.
C32_SliceFieldsHoldEveryValue ==
    (mode = "UnmarshalMT" /\ result.op = "UnmarshalMT" /\ ~result.panic /\ result.err = <<>>)
    => /\ Len(result.v.StatementLines) = Len(FieldValues(member.fields, <<"6", "1">>))
       /\ result.v.AccountOwnerInformation = FieldValues(member.fields, <<"8", "6">>)


\* The last three runes of the content: the obsolescence period.
PeriodField == SubSeq(input, Len(input) - 2, Len(input))

\* C33: for a content of 19, 20 or 21 runes that ends with three digits,
\* the decoding succeeds and ObsolescencePeriodInMinutes is five times the
\* number they spell; a period that is not numeric gives the error "invalid
\* obsolescence period".
C33_ObsolescencePeriod ==
    (mode = "AppHeaderInput" /\ result.op = "appHeaderBlockToAppHeaderInput"
        /\ Len(input) \in {19, 20, 21})
    => /\ IsDigits(PeriodField) =>
            /\ result.err = <<>>
            /\ result.v.ObsolescencePeriodInMinutes = 5 * DecimalValue(PeriodField)
       /\ ~IsDigits(PeriodField) => result.err = <<"invalid obsolescence period">>


\* The sub-blocks of the block 3 decoded.
UsrSubs == member.block.Blocks

\* The sub-block adds an error: its label is unknown, or it is a 106 or a
\* 423 whose content is invalid.
UsrSubBlockIsInvalid(sb) ==
    CASE sb.Label \in UsrHeaderTextLabels -> FALSE
      [] sb.Label = <<"1", "0", "6">> -> stringToMessageInputReferenceDate(sb.Content).err # <<>>
      [] sb.Label = <<"4", "2", "3">> -> DateTimeSecOptCentUnmarshalMT(sb.Content).err # <<>>
      [] OTHER -> TRUE

\* No valid sub-block of the label of sub-block i follows it.
LastValidOfLabel(i) ==
    \A j \in (i + 1)..Len(UsrSubs) :
        UsrSubs[j].Label = UsrSubs[i].Label => UsrSubBlockIsInvalid(UsrSubs[j])

\* Sub-block i is in the member of its label.
UsrSubBlockDecoded(i) ==
    LET sb == UsrSubs[i]
    IN CASE sb.Label = <<"1", "0", "6">> ->
              result.v.MessageInputReference = stringToMessageInputReferenceDate(sb.Content).v
         [] sb.Label = <<"4", "2", "3">> ->
              result.v.BalanceCheckpointDateTime = DateTimeSecOptCentUnmarshalMT(sb.Content).v
         [] OTHER -> sb.Label \in DOMAIN result.v.Text /\ result.v.Text[sb.Label] = sb.Content

UsrHeaderDecoded == mode = "UsrHeader" /\ result.op = "usrHeaderBlockToUsrHeader"

\* C34: the decoding of block 3 has one error for each sub-block with an
\* unknown label, an invalid 106 or an invalid 423, and every other
\* sub-block is in the member of its label (the last one, when a label
\* occurs more than once), in whatever order the sub-blocks come.
C34_UsrHeaderSubBlocks ==
    UsrHeaderDecoded =>
        /\ Len(result.err) = Cardinality({i \in 1..Len(UsrSubs) : UsrSubBlockIsInvalid(UsrSubs[i])})
        /\ \A i \in 1..Len(UsrSubs) :
              ~UsrSubBlockIsInvalid(UsrSubs[i]) /\ LastValidOfLabel(i) => UsrSubBlockDecoded(i)

\* An invalid sub-block is followed by a valid one, which is decoded, and
\* a valid 106 is decoded in front of an invalid one.
C34_Witness ==
    /\ UsrHeaderDecoded
    /\ Len(UsrSubs) = 3
    /\ UsrSubBlockIsInvalid(UsrSubs[1])
    /\ UsrSubs[2].Label = <<"1", "0", "6">> /\ result.v.MessageInputReference.Set
    /\ result.v.MessageInputReference.SessionNumber = <<"2", "2", "2", "2">>
    /\ UsrSubs[3].Label = <<"1", "0", "8">> /\ result.v.Text[<<"1", "0", "8">>] = <<"C">>
    /\ Len(result.err) = 1


\* The sub-blocks of the block 5 decoded.
TrailerSubs == member.block.Blocks

\* The sub-block is a PDE, MRF, PDM or SYS whose content is invalid.
TrailerSubBlockIsInvalid(sb) ==
    CASE sb.Label = <<"P", "D", "E">> -> stringToPossibleDuplicateEmission(sb.Content).err # <<>>
      [] sb.Label = <<"M", "R", "F">> ->
            Len(sb.Content) < 10 \/ stringToMessageReference(sb.Content).err # <<>>
      [] sb.Label = <<"P", "D", "M">> -> stringToPossibleDuplicateMessage(sb.Content).err # <<>>
      [] sb.Label = <<"S", "Y", "S">> -> stringToSystemOriginatedMessage(sb.Content).err # <<>>
      [] OTHER -> FALSE

\* The indexes of the sub-blocks with the label.
TrailersWith(label) == {i \in 1..Len(TrailerSubs) : TrailerSubs[i].Label = label}

\* The content of the last sub-block with the label.
LastTrailer(label) ==
    TrailerSubs[CHOOSE i \in TrailersWith(label) : \A j \in TrailersWith(label) : j <= i].Content

RECURSIVE RawSubBlocks(_)
RawSubBlocks(subs) ==
    IF subs = <<>> THEN <<>>
    ELSE RawBlock(Head(subs).Label, Head(subs).Content) \o RawSubBlocks(Tail(subs))

TrailersDecoded == mode = "Trailers" /\ result.op = "trailersBlockToTrailers"

\* What the trailers hold of the sub-blocks that are no PDE, MRF, PDM or
\* SYS, and the Raw.
TrailersHoldOthers ==
    /\ result.v.Checksum =
           (IF TrailersWith(<<"C", "H", "K">>) = {} THEN <<>> ELSE LastTrailer(<<"C", "H", "K">>))
    /\ result.v.TestAndTrainingMessage <=> TrailersWith(<<"T", "N", "G">>) # {}
    /\ result.v.DelayedMessage <=> TrailersWith(<<"D", "L", "M">>) # {}
    /\ DOMAIN result.v.AdditionalTrailers =
           {TrailerSubs[i].Label : i \in 1..Len(TrailerSubs)} \ TrailerLabels
    /\ \A l \in DOMAIN result.v.AdditionalTrailers :
           result.v.AdditionalTrailers[l] = LastTrailer(l)
    /\ result.v.Raw = <<"{", "5", ":">> \o RawSubBlocks(TrailerSubs) \o <<"}">>

\* C35: the decoding of block 5 ends with one error for each invalid PDE,
\* MRF, PDM or SYS sub-block, and with the other sub-blocks decoded: CHK in
\* the checksum, TNG and DLM in their flags, the labels of no member in
\* AdditionalTrailers, and every sub-block, in its order, in Raw.
C35_TrailersSubBlocks ==
    TrailersDecoded =>
        /\ ~panicked
        /\ Len(result.err) =
               Cardinality({i \in 1..Len(TrailerSubs) : TrailerSubBlockIsInvalid(TrailerSubs[i])})
        /\ TrailersHoldOthers


\* A goroutine is at a send on a channel that is closed.
SendsOnClosedChannel ==
    \/ "errCh" \in closed /\ (cv.pc = "sendErr" \/ fw.pc = "sendErr" \/ ef.pc = "send")
    \/ "mtxCh" \in closed /\ fw.pc = "sendMtx"

\* C36: in ParseMT940 no goroutine sends on a closed channel: the error of
\* a conversion or validation is sent on the error channel before ParseMTx
\* closes it, in every interleaving.
C36_NoSendOnClosedChannel ==
    mode = "ParseMT940" => ~SendsOnClosedChannel /\ cv.pc # "panic"


\* C37: pattern.Parse returns for every pattern text, with a compiled
\* pattern or with an error, also for a text with a ')' that closes nothing.
C37_ParseTerminates ==
    mode = "Pattern" /\ compiled.state # "none" => compiled.state \in {"ok", "err"}


\* What the partial match took from the front of the input.
ConsumedPrefix == SubSeq(input, 1, Len(input) - Len(result.rest))

\* C38: a partial match of a d group that succeeds returns the input without
\* a prefix of digits and at most one comma: a rune that is neither digit nor
\* comma is never consumed.
C38_AmountGroupConsumesAmountOnly ==
    PartialOn("CharGroup") /\ CompiledNode.charSetKey = "d" /\ ~result.err =>
        /\ result.rest = SubSeq(input, Len(input) - Len(result.rest) + 1, Len(input))
        /\ \A i \in 1..Len(ConsumedPrefix) : ConsumedPrefix[i] \in Digits \cup {","}
        /\ CountIn(ConsumedPrefix, {","}) <= 1

====
